---- MODULE Spec2Model ----
(***************************************************************************)
(* A model of the modal editing engine of phantom (src/src/main.rs): the   *)
(* per-tab buffer, cursor and viewport, the undo/redo stacks, the tab      *)
(* collection, the clipboard-mediated yank/paste and the key dispatch.     *)
(*                                                                         *)
(* Conventions.  Indices are 0-based as in the source; a TLA+ sequence is  *)
(* 1-based, so element i of the source is element i+1 here.  A position is *)
(* the pair <<column, line>>, as the source's (usize, usize) tuples.  A    *)
(* Rust String is a TLA+ string of bytes: an ASCII character is one byte,  *)
(* the two-byte character is the pair WideLead WideCont.  Option<T> is a   *)
(* sequence of length 0 (None) or 1 (Some).  A panic ends the process:     *)
(* status becomes "panicked" and no further event is processed.            *)
(***************************************************************************)
EXTENDS Integers, Sequences, FiniteSets, TLC

\* ------------------------------------------------------------------ bounds
MaxLines == 2
MaxLineLen == 2
MaxTabs == 3
MaxHistory == 1
MaxTyped == 3
ScrollLines == 50
WideLen == 81

\* --------------------------------------------------------- program constants
UndoLimit == 100
editor_height == 24
editor_width == 80

\* ------------------------------------------------------------------ strings
WideLead == "{"
WideCont == "}"
WideChar == WideLead \o WideCont
NL == "\n"

Min(a, b) == IF a <= b THEN a ELSE b

\* saturating_sub on usize
SatSub(a, b) == IF a >= b THEN a - b ELSE 0

\* str::is_char_boundary(i), i a 0-based byte index
is_char_boundary(s, i) ==
    \/ i = 0
    \/ i = Len(s)
    \/ (i < Len(s) /\ SubSeq(s, i + 1, i + 1) # WideCont)

\* &s[a..b]; the caller has checked a <= b <= len and the boundaries
Slice(s, a, b) == SubSeq(s, a + 1, b)

\* the slice &s[a..b] is legal (no panic)
SliceOk(s, a, b) ==
    a <= b /\ b <= Len(s) /\ is_char_boundary(s, a) /\ is_char_boundary(s, b)

\* byte length of the character that starts at byte i
CharLenAt(s, i) == IF SubSeq(s, i + 1, i + 1) = WideLead THEN 2 ELSE 1

\* String::insert / insert_str legality and result
InsertOk(s, i) == i <= Len(s) /\ is_char_boundary(s, i)
StrInsert(s, i, c) == Slice(s, 0, i) \o c \o Slice(s, i, Len(s))

\* String::remove(i): panics at the end of the string or inside a character
RemoveOk(s, i) == i < Len(s) /\ is_char_boundary(s, i)
StrRemove(s, i) == Slice(s, 0, i) \o Slice(s, i + CharLenAt(s, i), Len(s))

\* str::split('\n'): the pieces between newline bytes (never empty)
RECURSIVE SplitFrom(_, _, _)
SplitFrom(s, i, cur) ==
    IF i > Len(s) THEN <<cur>>
    ELSE IF SubSeq(s, i, i) = NL THEN <<cur>> \o SplitFrom(s, i + 1, "")
    ELSE SplitFrom(s, i + 1, cur \o SubSeq(s, i, i))
split(s) == SplitFrom(s, 1, "")

\* str::split_whitespace: the non-empty pieces between blanks
RECURSIVE WordsFrom(_, _, _)
WordsFrom(s, i, cur) ==
    IF i > Len(s) THEN (IF cur = "" THEN <<>> ELSE <<cur>>)
    ELSE IF SubSeq(s, i, i) = " "
    THEN (IF cur = "" THEN <<>> ELSE <<cur>>) \o WordsFrom(s, i + 1, "")
    ELSE WordsFrom(s, i + 1, cur \o SubSeq(s, i, i))
split_whitespace(s) == WordsFrom(s, 1, "")

\* Vec::insert(i, x) and Vec::remove(i), i 0-based
VecInsert(v, i, x) == SubSeq(v, 1, i) \o <<x>> \o SubSeq(v, i + 1, Len(v))
VecRemove(v, i) == SubSeq(v, 1, i) \o SubSeq(v, i + 2, Len(v))

\* (usize, usize) tuples compare lexicographically, first component first
TupleLe(p, q) == p[1] < q[1] \/ (p[1] = q[1] /\ p[2] <= q[2])

\* ---------------------------------------------------------------- the tab
\* Tab::new()
Tab_new ==
    [content |-> <<"">>, cursor_position |-> <<0, 0>>, scroll_offset |-> 0,
     horizontal_scroll |-> 0, current_file |-> <<>>,
     undo_stack |-> <<>>, redo_stack |-> <<>>]

\* struct EditOperation built from a tab
EditOperation(tab) ==
    [content |-> tab.content, cursor_position |-> tab.cursor_position,
     scroll_offset |-> tab.scroll_offset,
     horizontal_scroll |-> tab.horizontal_scroll]

\* Tab::adjust_horizontal_scroll
adjust_horizontal_scroll(tab) ==
    IF tab.cursor_position[1] < tab.horizontal_scroll
    THEN [tab EXCEPT !.horizontal_scroll = tab.cursor_position[1]]
    ELSE IF tab.cursor_position[1] >= tab.horizontal_scroll + editor_width
    THEN [tab EXCEPT !.horizontal_scroll = tab.cursor_position[1] - editor_width + 1]
    ELSE tab

\* ------------------------------------------------------- editor helpers
Active(e) == e.tabs[e.active_tab + 1]
WithTab_first(e, tab) == [e EXCEPT !.tabs[1] = tab]
WithTab(e, tab) == [e EXCEPT !.tabs[e.active_tab + 1] = tab]
Panic(e) == [e EXCEPT !.status = "panicked"]
\* last_op names the operation an event ran; the cursor motions, which only
\* move the cursor, share the name "move"
MoveOps ==
    {"move_cursor_up", "move_cursor_down", "move_cursor_left",
     "move_cursor_right", "move_cursor_start_of_line",
     "move_cursor_end_of_line", "page_up", "page_down"}
Did(e, name) == [e EXCEPT !.last_op = IF name \in MoveOps THEN "move" ELSE name]

\* Editor::update_current_tab_info (the editor-level copy of the cursor);
\* self.tabs[self.active_tab] panics on an index out of range
update_current_tab_info(e) ==
    IF e.active_tab < Len(e.tabs)
    THEN [e EXCEPT !.cursor_position = Active(e).cursor_position]
    ELSE Panic(e)

\* ------------------------------------------------------------- undo / redo
\* save_state without clearing the redo stack
save_state_keep_redo(e) ==
    LET tab == Active(e)
        pushed == <<EditOperation(tab)>> \o tab.undo_stack
        kept == IF Len(pushed) > UndoLimit
                THEN SubSeq(pushed, 1, Len(pushed) - 1) ELSE pushed
    IN WithTab(e, [tab EXCEPT !.undo_stack = kept])

\* save_state that discards the newest snapshot instead of the oldest
save_state_drop_newest(e) ==
    LET tab == Active(e)
        pushed == <<EditOperation(tab)>> \o tab.undo_stack
        kept == IF Len(pushed) > UndoLimit THEN Tail(pushed) ELSE pushed
    IN WithTab(e, [tab EXCEPT !.undo_stack = kept, !.redo_stack = <<>>])

\* Editor::save_state
save_state(e) ==
    LET tab == Active(e)
        pushed == <<EditOperation(tab)>> \o tab.undo_stack
        kept == IF Len(pushed) > UndoLimit
                THEN SubSeq(pushed, 1, Len(pushed) - 1) ELSE pushed
    IN WithTab(e, [tab EXCEPT !.undo_stack = kept, !.redo_stack = <<>>])

\* undo leaving the snapshot it restores on the undo stack
undo_keep_snapshot(e) ==
    LET tab == Active(e) IN
    IF tab.undo_stack # <<>>
    THEN LET operation == Head(tab.undo_stack) IN
         Did(WithTab(e, [tab EXCEPT
             !.redo_stack = <<EditOperation(tab)>> \o tab.redo_stack,
             !.content = operation.content,
             !.cursor_position = operation.cursor_position,
             !.scroll_offset = operation.scroll_offset,
             !.horizontal_scroll = operation.horizontal_scroll]), "undo")
    ELSE Did(e, "undo")

\* Editor::undo
undo(e) ==
    LET tab == Active(e) IN
    IF tab.undo_stack # <<>>
    THEN LET operation == Head(tab.undo_stack) IN
         Did(WithTab(e, [tab EXCEPT
             !.undo_stack = Tail(tab.undo_stack),
             !.redo_stack = <<EditOperation(tab)>> \o tab.redo_stack,
             !.content = operation.content,
             !.cursor_position = operation.cursor_position,
             !.scroll_offset = operation.scroll_offset,
             !.horizontal_scroll = operation.horizontal_scroll]), "undo")
    ELSE Did(e, "undo")

\* redo without pushing the live state onto the undo stack
redo_no_push(e) ==
    LET tab == Active(e) IN
    IF tab.redo_stack # <<>>
    THEN LET operation == Head(tab.redo_stack) IN
         Did(WithTab(e, [tab EXCEPT
             !.redo_stack = Tail(tab.redo_stack),
             !.content = operation.content,
             !.cursor_position = operation.cursor_position,
             !.scroll_offset = operation.scroll_offset,
             !.horizontal_scroll = operation.horizontal_scroll]), "redo")
    ELSE Did(e, "redo")

\* Editor::redo
redo(e) ==
    LET tab == Active(e) IN
    IF tab.redo_stack # <<>>
    THEN LET operation == Head(tab.redo_stack) IN
         Did(WithTab(e, [tab EXCEPT
             !.redo_stack = Tail(tab.redo_stack),
             !.undo_stack = <<EditOperation(tab)>> \o tab.undo_stack,
             !.content = operation.content,
             !.cursor_position = operation.cursor_position,
             !.scroll_offset = operation.scroll_offset,
             !.horizontal_scroll = operation.horizontal_scroll]), "redo")
    ELSE Did(e, "redo")

\* ------------------------------------------------------------------- tabs
\* switch_to_tab accepting the index one past the last tab
switch_to_tab_one_past(e, tab_index) ==
    IF tab_index <= Len(e.tabs)
    THEN Did(update_current_tab_info(
             [e EXCEPT !.active_tab = tab_index, !.message = "switched"]),
             "switch_to_tab")
    ELSE Did([e EXCEPT !.message = "no_such_tab"], "switch_to_tab")

\* Editor::switch_to_tab
switch_to_tab(e, tab_index) ==
    IF tab_index < Len(e.tabs)
    THEN Did(update_current_tab_info(
             [e EXCEPT !.active_tab = tab_index, !.message = "switched"]),
             "switch_to_tab")
    ELSE Did([e EXCEPT !.message = "no_such_tab"], "switch_to_tab")

\* close_tab without clamping the active index
close_tab_no_clamp(e) ==
    IF Len(e.tabs) > 1
    THEN Did(update_current_tab_info(
             [e EXCEPT !.tabs = VecRemove(e.tabs, e.active_tab)]), "close_tab")
    ELSE Did(e, "close_tab")

\* close_tab removing the last tab instead of the active one
close_tab_last(e) ==
    IF Len(e.tabs) > 1
    THEN LET tabs2 == SubSeq(e.tabs, 1, Len(e.tabs) - 1)
             active2 == IF e.active_tab >= Len(tabs2)
                        THEN Len(tabs2) - 1 ELSE e.active_tab
         IN Did(update_current_tab_info(
                [e EXCEPT !.tabs = tabs2, !.active_tab = active2]), "close_tab")
    ELSE Did(e, "close_tab")

\* Editor::close_tab
close_tab(e) ==
    IF Len(e.tabs) > 1
    THEN LET tabs2 == VecRemove(e.tabs, e.active_tab)
             active2 == IF e.active_tab >= Len(tabs2)
                        THEN Len(tabs2) - 1 ELSE e.active_tab
         IN Did(update_current_tab_info(
                [e EXCEPT !.tabs = tabs2, !.active_tab = active2]), "close_tab")
    ELSE Did(e, "close_tab")

\* Editor::ensure_cursor_in_bounds
ensure_cursor_in_bounds(e) ==
    LET tab == Active(e)
        content2 == IF tab.content = <<>> THEN <<"">> ELSE tab.content
        y == Min(tab.cursor_position[2], Len(content2) - 1)
        x == Min(tab.cursor_position[1], Len(content2[y + 1]))
    IN WithTab(e, [tab EXCEPT !.content = content2, !.cursor_position = <<x, y>>])

\* next_tab stopping at the last tab instead of wrapping around
next_tab_no_wrap(e) ==
    IF e.tabs # <<>>
    THEN Did(update_current_tab_info(
             [e EXCEPT !.active_tab = Min(e.active_tab + 1, Len(e.tabs) - 1)]),
             "next_tab")
    ELSE Did(e, "next_tab")

\* Editor::next_tab
next_tab(e) ==
    IF e.tabs # <<>>
    THEN Did(update_current_tab_info(
             [e EXCEPT !.active_tab = (e.active_tab + 1) % Len(e.tabs)]), "next_tab")
    ELSE Did(e, "next_tab")

\* new_tab never reusing the scratch tab
new_tab_always_append(e) ==
    Did([e EXCEPT !.tabs = Append(e.tabs, Tab_new),
                  !.active_tab = Len(e.tabs)], "new_tab")

\* Editor::new_tab
new_tab(e) ==
    IF Len(e.tabs) = 1 /\ e.tabs[1].content = <<"">> /\ e.tabs[1].current_file = <<>>
    THEN Did([e EXCEPT !.active_tab = 0], "new_tab")
    ELSE Did([e EXCEPT !.tabs = Append(e.tabs, Tab_new),
                       !.active_tab = Len(e.tabs)], "new_tab")

\* Editor::previous_tab
previous_tab(e) ==
    IF e.tabs # <<>>
    THEN Did(update_current_tab_info(
             [e EXCEPT !.active_tab = (e.active_tab + Len(e.tabs) - 1) % Len(e.tabs)]),
             "previous_tab")
    ELSE Did(e, "previous_tab")

\* ------------------------------------------------------------ cursor motion
\* Editor::move_cursor_up
move_cursor_up(e) ==
    LET tab == Active(e)
        x == tab.cursor_position[1]
        y == tab.cursor_position[2]
    IN IF y > 0
       THEN Did(WithTab(e, [tab EXCEPT
                !.cursor_position = <<x, y - 1>>,
                !.scroll_offset = IF y - 1 < tab.scroll_offset
                                  THEN y - 1 ELSE tab.scroll_offset]),
                "move_cursor_up")
       ELSE Did(e, "move_cursor_up")

\* Editor::move_cursor_down
move_cursor_down(e) ==
    LET tab == Active(e)
        x == tab.cursor_position[1]
        y == tab.cursor_position[2]
    IN IF y < Len(tab.content) - 1
       THEN Did(WithTab(e, [tab EXCEPT
                !.cursor_position = <<x, y + 1>>,
                !.scroll_offset = IF y + 1 >= tab.scroll_offset + editor_height
                                  THEN y + 1 - editor_height + 1
                                  ELSE tab.scroll_offset]),
                "move_cursor_down")
       ELSE Did(e, "move_cursor_down")

\* Editor::move_cursor_left
move_cursor_left(e) ==
    LET tab == Active(e)
        x == tab.cursor_position[1]
        y == tab.cursor_position[2]
    IN IF x > 0
       THEN Did(WithTab(e, [tab EXCEPT
                !.cursor_position = <<x - 1, y>>,
                !.horizontal_scroll = IF x - 1 < tab.horizontal_scroll
                                      THEN x - 1 ELSE tab.horizontal_scroll]),
                "move_cursor_left")
       ELSE IF y > 0
       THEN IF y - 1 >= Len(tab.content) THEN Panic(Did(e, "move_cursor_left"))
            ELSE Did(WithTab(e, adjust_horizontal_scroll([tab EXCEPT
                     !.cursor_position = <<Len(tab.content[y]), y - 1>>])),
                     "move_cursor_left")
       ELSE Did(e, "move_cursor_left")

\* Editor::move_cursor_right
move_cursor_right(e) ==
    LET tab == Active(e)
        x == tab.cursor_position[1]
        y == tab.cursor_position[2]
    IN IF y >= Len(tab.content) THEN Panic(Did(e, "move_cursor_right"))
       ELSE IF x < Len(tab.content[y + 1])
       THEN Did(WithTab(e, adjust_horizontal_scroll([tab EXCEPT
                !.cursor_position = <<x + 1, y>>])), "move_cursor_right")
       ELSE IF y < Len(tab.content) - 1
       THEN Did(WithTab(e, [tab EXCEPT !.cursor_position = <<0, y + 1>>,
                                       !.horizontal_scroll = 0]),
                "move_cursor_right")
       ELSE Did(e, "move_cursor_right")

\* Editor::move_cursor_start_of_line
move_cursor_start_of_line(e) ==
    LET tab == Active(e) IN
    Did(WithTab(e, adjust_horizontal_scroll([tab EXCEPT
        !.cursor_position = <<0, tab.cursor_position[2]>>])),
        "move_cursor_start_of_line")

\* Editor::move_cursor_end_of_line
move_cursor_end_of_line(e) ==
    LET tab == Active(e)
        y == tab.cursor_position[2]
    IN IF y >= Len(tab.content) THEN Panic(Did(e, "move_cursor_end_of_line"))
       ELSE Did(WithTab(e, adjust_horizontal_scroll([tab EXCEPT
                !.cursor_position = <<Len(tab.content[y + 1]), y>>])),
                "move_cursor_end_of_line")

\* Editor::page_up
page_up(e) ==
    LET tab == Active(e)
        so == IF tab.scroll_offset > editor_height
              THEN tab.scroll_offset - editor_height ELSE 0
    IN Did(WithTab(e, [tab EXCEPT
           !.scroll_offset = so,
           !.cursor_position = <<tab.cursor_position[1], so>>]), "page_up")

\* page_down always scrolling by a full window
page_down_full_window(e) ==
    LET tab == Active(e)
        so == tab.scroll_offset + editor_height
        y0 == so + editor_height - 1
        y == IF y0 >= Len(tab.content) THEN Len(tab.content) - 1 ELSE y0
    IN Did(WithTab(e, [tab EXCEPT
           !.scroll_offset = so,
           !.cursor_position = <<tab.cursor_position[1], y>>]), "page_down")

\* Editor::page_down
page_down(e) ==
    LET tab == Active(e)
        max_scroll == SatSub(Len(tab.content), editor_height)
        so == IF tab.scroll_offset + editor_height < max_scroll
              THEN tab.scroll_offset + editor_height ELSE max_scroll
        y0 == so + editor_height - 1
        y == IF y0 >= Len(tab.content) THEN Len(tab.content) - 1 ELSE y0
    IN Did(WithTab(e, [tab EXCEPT
           !.scroll_offset = so,
           !.cursor_position = <<tab.cursor_position[1], y>>]), "page_down")

\* ---------------------------------------------------------------- clipboard
\* The system clipboard belongs to the environment: what it holds when it is
\* read, and whether a call succeeds, are inputs of the event; what the
\* editor hands to it is recorded in clipboard.
\* ClipboardWrapper::set_contents: ok is whether the system clipboard accepts
\* the call; the Dummy stand-in always succeeds and stores nothing
set_contents_ok(e, ok) == e.clipboard_kind = "Dummy" \/ ok
set_contents(e, text) ==
    IF e.clipboard_kind = "Dummy" THEN e ELSE [e EXCEPT !.clipboard = <<text>>]

\* ClipboardWrapper::get_contents: held is what the system clipboard holds
get_contents_ok(e, ok) == e.clipboard_kind = "Dummy" \/ ok
get_contents(e, held) == IF e.clipboard_kind = "Dummy" THEN "" ELSE held

\* -------------------------------------------------------------------- edits
\* insert_char saving the state after the insertion instead of before it
insert_char_save_late(e, c) ==
    LET e1 == Did(e, "insert_char")
        tab == Active(e1)
        x == tab.cursor_position[1]
        y == tab.cursor_position[2]
    IN IF y >= Len(tab.content) THEN Panic(e1)
       ELSE IF ~InsertOk(tab.content[y + 1], x) THEN Panic(e1)
       ELSE save_state(WithTab(e1, adjust_horizontal_scroll([tab EXCEPT
                !.content[y + 1] = StrInsert(tab.content[y + 1], x, c),
                !.cursor_position = <<x + 1, y>>])))

\* Editor::insert_char; c is the character's bytes
insert_char(e, c) ==
    LET e1 == Did(save_state(e), "insert_char")
        tab == Active(e1)
        x == tab.cursor_position[1]
        y == tab.cursor_position[2]
    IN IF y >= Len(tab.content) THEN Panic(e1)
       ELSE IF ~InsertOk(tab.content[y + 1], x) THEN Panic(e1)
       ELSE WithTab(e1, adjust_horizontal_scroll([tab EXCEPT
                !.content[y + 1] = StrInsert(tab.content[y + 1], x, c),
                !.cursor_position = <<x + 1, y>>]))

\* Editor::insert_newline
insert_newline(e) ==
    LET e1 == Did(save_state(e), "insert_newline")
        tab == Active(e1)
        x == tab.cursor_position[1]
        y == tab.cursor_position[2]
    IN IF y >= Len(tab.content) THEN Panic(e1)
       ELSE IF ~InsertOk(tab.content[y + 1], x) THEN Panic(e1)
       ELSE LET line == tab.content[y + 1]
                rest_of_line == Slice(line, x, Len(line))
                kept == [tab.content EXCEPT ![y + 1] = Slice(line, 0, x)]
            IN WithTab(e1, [tab EXCEPT
                   !.content = VecInsert(kept, y + 1, rest_of_line),
                   !.cursor_position = <<0, y + 1>>])

\* Editor::backspace
backspace(e) ==
    LET e1 == Did(save_state(e), "backspace")
        tab == Active(e1)
        x == tab.cursor_position[1]
        y == tab.cursor_position[2]
    IN IF x > 0
       THEN IF y >= Len(tab.content) THEN Panic(e1)
            ELSE IF ~RemoveOk(tab.content[y + 1], x - 1) THEN Panic(e1)
            ELSE WithTab(e1, [tab EXCEPT
                     !.content[y + 1] = StrRemove(tab.content[y + 1], x - 1),
                     !.cursor_position = <<x - 1, y>>])
       ELSE IF y > 0
       THEN IF y >= Len(tab.content) THEN Panic(e1)
            ELSE LET current_line == tab.content[y + 1]
                     removed == VecRemove(tab.content, y)
                 IN WithTab(e1, [tab EXCEPT
                        !.content = [removed EXCEPT ![y] = removed[y] \o current_line],
                        !.cursor_position = <<Len(removed[y]), y - 1>>])
       ELSE e1

\* Editor::delete_char
delete_char(e) ==
    LET e1 == Did(save_state(e), "delete_char")
        tab == Active(e1)
        x == tab.cursor_position[1]
        y == tab.cursor_position[2]
    IN IF y >= Len(tab.content) THEN Panic(e1)
       ELSE IF x < Len(tab.content[y + 1])
       THEN IF ~RemoveOk(tab.content[y + 1], x) THEN Panic(e1)
            ELSE WithTab(e1, [tab EXCEPT
                     !.content[y + 1] = StrRemove(tab.content[y + 1], x)])
       ELSE IF y < Len(tab.content) - 1
       THEN LET next_line == tab.content[y + 2]
                removed == VecRemove(tab.content, y + 1)
            IN WithTab(e1, [tab EXCEPT
                   !.content = [removed EXCEPT ![y + 1] = removed[y + 1] \o next_line]])
       ELSE e1

\* Editor::delete_line; clip_ok: the clipboard accepts set_contents
delete_line(e, clip_ok) ==
    LET tab0 == Active(e)
        cursor_y == tab0.cursor_position[2]
    IN IF cursor_y < Len(tab0.content)
       THEN LET e1 == Did(save_state(e), "delete_line")
                tab == Active(e1)
                line == tab.content[cursor_y + 1]
                removed == VecRemove(tab.content, cursor_y)
            IN IF ~set_contents_ok(e1, clip_ok)
               THEN Panic(WithTab(e1, [tab EXCEPT !.content = removed]))
               ELSE LET content2 == IF removed = <<>> THEN <<"">> ELSE removed
                        y2 == IF cursor_y = Len(content2) /\ cursor_y > 0
                              THEN cursor_y - 1 ELSE cursor_y
                    IN WithTab(set_contents(e1, line), [tab EXCEPT
                           !.content = content2,
                           !.cursor_position = <<0, y2>>])
       ELSE Did(e, "delete_line")

\* Editor::insert_line_below
insert_line_below(e) ==
    LET e1 == Did(save_state(e), "insert_line_below")
        tab == Active(e1)
        y == tab.cursor_position[2]
    IN IF y + 1 > Len(tab.content) THEN Panic(e1)
       ELSE WithTab(e1, [tab EXCEPT
                !.content = VecInsert(tab.content, y + 1, ""),
                !.cursor_position = <<0, y + 1>>])

\* Editor::insert_line_above
insert_line_above(e) ==
    LET e1 == Did(save_state(e), "insert_line_above")
        tab == Active(e1)
        y == tab.cursor_position[2]
    IN IF y > Len(tab.content) THEN Panic(e1)
       ELSE WithTab(e1, [tab EXCEPT
                !.content = VecInsert(tab.content, y, ""),
                !.cursor_position = <<0, y>>])

\* Editor::yank_line
yank_line(e, clip_ok) ==
    LET e1 == Did(save_state(e), "yank_line")
        tab == Active(e1)
        y == tab.cursor_position[2]
    IN IF y < Len(tab.content)
       THEN IF ~set_contents_ok(e1, clip_ok) THEN Panic(e1)
            ELSE set_contents(e1, tab.content[y + 1])
       ELSE e1

\* Editor::paste_after; clip_ok: the clipboard answers get_contents
paste_after(e, clip_ok, held) ==
    IF get_contents_ok(e, clip_ok)
    THEN LET content == get_contents(e, held)
             e1 == Did(save_state(e), "paste_after")
             tab == Active(e1)
             current_line == tab.cursor_position[2]
             current_column == tab.cursor_position[1]
             lines0 == IF current_line >= Len(tab.content)
                       THEN Append(tab.content, "") ELSE tab.content
         IN IF current_line >= Len(lines0) THEN Panic(e1)
            ELSE LET line == lines0[current_line + 1]
                     at == Min(current_column, Len(line))
                 IN IF ~is_char_boundary(line, at) THEN Panic(e1)
                    ELSE LET left == Slice(line, 0, at)
                             right == Slice(line, at, Len(line))
                             new_lines == split(content)
                             combined_lines ==
                                 <<left \o Head(new_lines)>> \o Tail(new_lines)
                                     \o <<right>>
                             spliced ==
                                 SubSeq(lines0, 1, current_line) \o combined_lines
                                     \o SubSeq(lines0, current_line + 2, Len(lines0))
                             last_inserted_line ==
                                 current_line + Len(combined_lines) - 1
                         IN ensure_cursor_in_bounds(WithTab(e1, [tab EXCEPT
                                !.content = spliced,
                                !.cursor_position =
                                    <<Len(spliced[last_inserted_line + 1]) - Len(right),
                                      last_inserted_line>>]))
    ELSE ensure_cursor_in_bounds(Did(e, "paste_after_failed"))

\* ---------------------------------------------------------------- selection
\* the (start, end) pair both copy_selection and delete_selection compute:
\* the tuples are (column, line) and are compared as tuples
selection_range(e) ==
    LET tab == Active(e) IN
    IF TupleLe(e.visual_start, tab.cursor_position)
    THEN <<e.visual_start, tab.cursor_position>>
    ELSE <<tab.cursor_position, e.visual_start>>

\* the loop of copy_selection pushing no newline between the lines
RECURSIVE copy_loop_no_newline(_, _, _, _, _)
copy_loop_no_newline(content, start, end, i, last) ==
    IF i > last THEN <<"">>
    ELSE LET line == content[i + 1]
             piece == IF i = start[2]
                      THEN Slice(line, Min(start[1], Len(line)), Len(line))
                      ELSE IF i = end[2]
                      THEN Slice(line, 0, Min(end[1], Len(line)))
                      ELSE line
         IN <<piece \o copy_loop_no_newline(content, start, end, i + 1, last)[1]>>

\* the loop of copy_selection over lines i .. last (0-based): the text, or
\* <<>> when a slice panics
RECURSIVE copy_loop(_, _, _, _, _)
copy_loop(content, start, end, i, last) ==
    IF i > last THEN <<"">>
    ELSE LET line == content[i + 1]
             piece == IF i = start[2]
                      THEN IF is_char_boundary(line, Min(start[1], Len(line)))
                           THEN <<Slice(line, Min(start[1], Len(line)), Len(line))>>
                           ELSE <<>>
                      ELSE IF i = end[2]
                      THEN IF is_char_boundary(line, Min(end[1], Len(line)))
                           THEN <<Slice(line, 0, Min(end[1], Len(line)))>>
                           ELSE <<>>
                      ELSE <<line>>
             rest == copy_loop(content, start, end, i + 1, last)
         IN IF piece = <<>> \/ rest = <<>> THEN <<>>
            ELSE <<piece[1] \o (IF i # end[2] THEN NL ELSE "") \o rest[1]>>

\* Editor::copy_selection; overflow_checks: the build panics on overflow
copy_selection(e, clip_ok, overflow_checks) ==
    LET tab == Active(e)
        start == selection_range(e)[1]
        end == selection_range(e)[2]
        e1 == Did(e, "copy_selection")
        \* take(end.1 - start.1 + 1): the subtraction underflows when the
        \* start is on a later line; a build with overflow checks panics,
        \* one without wraps modulo 2^64
        underflow == end[2] < start[2]
        count == IF ~underflow THEN end[2] - start[2] + 1
                 ELSE IF start[2] - end[2] = 1 THEN 0
                 ELSE Len(tab.content)
        last == Min(start[2] + count, Len(tab.content)) - 1
        text == copy_loop(tab.content, start, end, start[2], last)
    IN IF underflow /\ overflow_checks THEN Panic(e1)
       ELSE IF text = <<>> THEN Panic(e1)
       ELSE IF set_contents_ok(e1, clip_ok)
       THEN [set_contents(e1, text[1]) EXCEPT !.message = "copied"]
       ELSE [e1 EXCEPT !.message = "copy_failed"]

\* Editor::delete_selection
delete_selection(e) ==
    LET e1 == Did(save_state(e), "delete_selection")
        tab == Active(e1)
        start == selection_range(e1)[1]
        end == selection_range(e1)[2]
    IN IF start[2] = end[2]
       THEN IF start[2] >= Len(tab.content) THEN Panic(e1)
            ELSE LET line == tab.content[start[2] + 1] IN
                 IF ~SliceOk(line, start[1], end[1] + 1) THEN Panic(e1)
                 ELSE WithTab(e1, [tab EXCEPT
                          !.content[start[2] + 1] =
                              Slice(line, 0, start[1])
                                  \o Slice(line, end[1] + 1, Len(line)),
                          !.cursor_position = start])
       ELSE IF start[2] >= Len(tab.content) \/ end[2] >= Len(tab.content)
       THEN Panic(e1)
       ELSE LET first == tab.content[start[2] + 1]
                final == tab.content[end[2] + 1]
            IN IF ~SliceOk(first, 0, start[1]) THEN Panic(e1)
               ELSE IF ~SliceOk(final, end[1] + 1, Len(final)) THEN Panic(e1)
               \* drain(start.1..=end.1): the range must not run backwards
               ELSE IF start[2] > end[2] + 1 THEN Panic(e1)
               ELSE LET new_line == Slice(first, 0, start[1])
                                        \o Slice(final, end[1] + 1, Len(final))
                        drained == SubSeq(tab.content, 1, start[2])
                                       \o SubSeq(tab.content, end[2] + 2,
                                                 Len(tab.content))
                    IN IF start[2] > Len(drained) THEN Panic(e1)
                       ELSE WithTab(e1, [tab EXCEPT
                                !.content = VecInsert(drained, start[2], new_line),
                                !.cursor_position = start])

\* the interior lines of paste_clipboard's loop, inserted one by one
RECURSIVE paste_loop(_, _, _, _)
paste_loop(content, y, lines, k) ==
    IF k > Len(lines) - 1 THEN <<content, y>>
    ELSE paste_loop(VecInsert(content, y + 1, lines[k]), y + 1, lines, k + 1)

\* Editor::paste_clipboard; the clipboard is read twice
paste_clipboard(e, clip_ok, clip_ok2, held) ==
    IF ~get_contents_ok(e, clip_ok)
    THEN Did([e EXCEPT !.message = "paste_failed"], "paste_clipboard_failed")
    ELSE IF ~get_contents_ok(e, clip_ok2)
    THEN Did(e, "paste_clipboard_failed")
    ELSE LET content == get_contents(e, held)
             e1 == Did(save_state(e), "paste_clipboard")
             tab == Active(e1)
             x == tab.cursor_position[1]
             y == tab.cursor_position[2]
             lines == split(content)
         IN IF y >= Len(tab.content) THEN Panic(e1)
            ELSE IF ~InsertOk(tab.content[y + 1], x) THEN Panic(e1)
            ELSE IF Len(lines) = 1
            THEN WithTab(e1, [tab EXCEPT
                     !.content[y + 1] = StrInsert(tab.content[y + 1], x, content),
                     !.cursor_position = <<x + Len(content), y>>])
            ELSE LET line == tab.content[y + 1]
                     rest_of_line == Slice(line, x, Len(line))
                     headed == [tab.content EXCEPT
                                   ![y + 1] = Slice(line, 0, x) \o lines[1]]
                     looped == paste_loop(headed, y, lines, 2)
                     y2 == looped[2]
                     last == lines[Len(lines)]
                 IN WithTab(e1, [tab EXCEPT
                        !.content = VecInsert(looped[1], y2 + 1, last \o rest_of_line),
                        !.cursor_position = <<Len(last), y2 + 1>>])

\* ------------------------------------------------------------------- mouse
\* Editor::screen_to_content_position
screen_to_content_position(e, x, y) ==
    <<SatSub(x, 1) + Active(e).horizontal_scroll,
      SatSub(y, 4) + Active(e).scroll_offset>>

\* Editor::start_mouse_selection
start_mouse_selection(e, x, y) ==
    Did([e EXCEPT
        !.mouse_selection_start = <<screen_to_content_position(e, x, y)>>,
        !.mouse_selection_end = <<screen_to_content_position(e, x, y)>>],
        "start_mouse_selection")

\* Editor::update_mouse_selection
update_mouse_selection(e, x, y) ==
    Did([e EXCEPT
        !.mouse_selection_end = <<screen_to_content_position(e, x, y)>>],
        "update_mouse_selection")

\* Editor::end_mouse_selection
end_mouse_selection(e) ==
    [e EXCEPT !.mouse_selection_start = <<>>, !.mouse_selection_end = <<>>]

\* the loop of copy_selection_to_clipboard over lines i ..= end.1
RECURSIVE mouse_copy_loop(_, _, _, _)
mouse_copy_loop(content, start, end, i) ==
    IF i > end[2] \/ i >= Len(content) THEN <<"">>
    ELSE LET line == content[i + 1]
             a == Min(start[1], Len(line))
             b == Min(end[1], Len(line))
             piece == IF i = start[2] /\ i = end[2]
                      THEN IF SliceOk(line, a, b) THEN <<Slice(line, a, b)>> ELSE <<>>
                      ELSE IF i = start[2]
                      THEN IF is_char_boundary(line, a)
                           THEN <<Slice(line, a, Len(line))>> ELSE <<>>
                      ELSE IF i = end[2]
                      THEN IF is_char_boundary(line, b)
                           THEN <<Slice(line, 0, b)>> ELSE <<>>
                      ELSE <<line>>
             rest == mouse_copy_loop(content, start, end, i + 1)
         IN IF piece = <<>> \/ rest = <<>> THEN <<>>
            ELSE <<piece[1] \o (IF i # end[2] THEN NL ELSE "") \o rest[1]>>

\* the (start, end) of copy_selection_to_clipboard, both ends being Some
mouse_selection_range(e) ==
    LET s0 == e.mouse_selection_start[1]
        e0 == e.mouse_selection_end[1]
    IN IF TupleLe(s0, e0) THEN <<s0, e0>> ELSE <<e0, s0>>

\* Editor::copy_selection_to_clipboard
copy_selection_to_clipboard(e, clip_ok) ==
    IF e.mouse_selection_start # <<>> /\ e.mouse_selection_end # <<>>
    THEN LET start == mouse_selection_range(e)[1]
             end == mouse_selection_range(e)[2]
             text == mouse_copy_loop(Active(e).content, start, end, start[2])
             e1 == Did(e, "copy_selection_to_clipboard")
         IN IF text = <<>> THEN Panic(e1)
            ELSE IF set_contents_ok(e1, clip_ok)
            THEN [set_contents(e1, text[1]) EXCEPT !.message = "copied"]
            ELSE [e1 EXCEPT !.message = "copy_failed"]
    ELSE Did(e, "copy_selection_to_clipboard")

\* ------------------------------------------------------------------ search
\* char::to_lowercase on the characters the model types
LowerChar(c) == IF c = "A" THEN "a" ELSE c

\* str::to_lowercase
RECURSIVE to_lowercase(_)
to_lowercase(s) ==
    IF s = "" THEN ""
    ELSE LowerChar(SubSeq(s, 1, 1)) \o to_lowercase(SubSeq(s, 2, Len(s)))

\* str::find: <<byte index>> of the first match, <<>> when there is none
find(hay, needle) ==
    LET hits == {i \in 0..Len(hay) :
                    /\ i + Len(needle) <= Len(hay)
                    /\ SubSeq(hay, i + 1, i + Len(needle)) = needle}
    IN IF hits = {} THEN <<>>
       ELSE <<CHOOSE i \in hits : \A j \in hits : i <= j>>

\* the (line_num, col) pairs perform_search collects, lines i.. in order
RECURSIVE search_lines(_, _, _)
search_lines(content, query, i) ==
    IF i >= Len(content) THEN <<>>
    ELSE LET hit == find(to_lowercase(content[i + 1]), to_lowercase(query))
         IN (IF hit = <<>> THEN <<>> ELSE <<(<<i, hit[1]>>)>>)
                \o search_lines(content, query, i + 1)

\* Editor::enter_search_mode
enter_search_mode(e) ==
    Did([e EXCEPT !.mode = "Search", !.search_query = "",
                  !.search_results = <<>>, !.current_search_index = 0],
        "enter_search_mode")

\* Editor::perform_search
perform_search(e) ==
    LET results == search_lines(Active(e).content, e.search_query, 0)
        e1 == Did([e EXCEPT !.search_results = results,
                            !.current_search_index = 0], "perform_search")
    IN IF results # <<>>
       THEN WithTab(e1, [Active(e1) EXCEPT
                !.cursor_position = <<results[1][2], results[1][1]>>])
       ELSE e1

\* Editor::next_search_result
next_search_result(e) ==
    IF e.search_results # <<>>
    THEN LET idx == (e.current_search_index + 1) % Len(e.search_results)
             e1 == Did([e EXCEPT !.current_search_index = idx],
                       "next_search_result")
         IN WithTab(e1, [Active(e1) EXCEPT !.cursor_position =
                <<e.search_results[idx + 1][2], e.search_results[idx + 1][1]>>])
    ELSE Did(e, "next_search_result")

\* Editor::previous_search_result
previous_search_result(e) ==
    IF e.search_results # <<>>
    THEN LET idx == (e.current_search_index + Len(e.search_results) - 1)
                        % Len(e.search_results)
             e1 == Did([e EXCEPT !.current_search_index = idx],
                       "previous_search_result")
         IN WithTab(e1, [Active(e1) EXCEPT !.cursor_position =
                <<e.search_results[idx + 1][2], e.search_results[idx + 1][1]>>])
    ELSE Did(e, "previous_search_result")

\* -------------------------------------------------------------------- files
\* str::lines on a non-empty text: the pieces between newlines, without the
\* empty piece after a final newline
lines_of(text) ==
    LET pieces == split(text) IN
    IF pieces[Len(pieces)] = "" THEN SubSeq(pieces, 1, Len(pieces) - 1)
    ELSE pieces

\* Tab::from_file on a readable file with the given text
Tab_from_file(path, text) ==
    [Tab_new EXCEPT
        !.content = IF text = "" THEN <<"">> ELSE lines_of(text),
        !.current_file = <<path>>]

\* Editor::open_file; fs is what the file system answers: kind "ok" (the file
\* exists and reads as fs.text), "missing" (no such file) or "err" (exists
\* but cannot be read)
open_file(e, path, fs) ==
    IF fs.kind = "err"
    THEN Did([e EXCEPT !.status = "error"], "open_file")
    ELSE LET new == IF fs.kind = "ok" THEN Tab_from_file(path, fs.text)
                    ELSE [Tab_new EXCEPT !.current_file = <<path>>]
             scratch == /\ Len(e.tabs) = 1
                        /\ e.tabs[1].content = <<"">>
                        /\ e.tabs[1].current_file = <<>>
         IN Did([e EXCEPT
                !.tabs = IF scratch THEN <<new>> ELSE Append(e.tabs, new),
                !.active_tab = IF scratch THEN 0 ELSE Len(e.tabs),
                !.message = IF fs.kind = "ok" THEN "file_opened" ELSE "new_file"],
                "open_file")

\* Editor::save_file; filename is None (<<>>) or Some(<<path>>); fs.write_ok
\* is whether creating and writing the file succeeds
save_file(e, filename, fs) ==
    LET tab == Active(e)
        target == IF filename # <<>> THEN filename ELSE tab.current_file
    IN IF target = <<>>
       THEN Did([e EXCEPT !.status = "error"], "save_file")
       ELSE IF ~fs.write_ok
       THEN Did([e EXCEPT !.status = "error"], "save_file")
       ELSE Did(WithTab([e EXCEPT !.message = "file_saved"],
                        [tab EXCEPT !.current_file = target]), "save_file")

\* toggle_sidebar hiding the sidebar without giving the mode back
toggle_sidebar_keep_mode(e, fs) ==
    IF ~e.show_sidebar
    THEN IF ~fs.dir_ok
         THEN Did([e EXCEPT !.show_sidebar = TRUE, !.status = "error"],
                  "toggle_sidebar")
         ELSE Did([e EXCEPT !.show_sidebar = TRUE, !.file_selector = TRUE,
                            !.mode = "SidebarActive"], "toggle_sidebar")
    ELSE Did([e EXCEPT !.show_sidebar = FALSE], "toggle_sidebar")

\* Editor::toggle_sidebar; fs.dir_ok is whether the directory can be listed
toggle_sidebar(e, fs) ==
    IF ~e.show_sidebar
    THEN IF ~fs.dir_ok
         THEN Did([e EXCEPT !.show_sidebar = TRUE, !.status = "error"],
                  "toggle_sidebar")
         ELSE Did([e EXCEPT !.show_sidebar = TRUE, !.file_selector = TRUE,
                            !.mode = "SidebarActive"], "toggle_sidebar")
    ELSE Did([e EXCEPT !.show_sidebar = FALSE, !.mode = "Normal"],
             "toggle_sidebar")

\* Editor::execute_command
execute_command(e, fs) ==
    LET command == e.command_buffer
        e1 == [e EXCEPT !.mode = "Normal", !.command_buffer = ""]
        closing(ed) == IF Len(ed.tabs) > 1 THEN close_tab(ed)
                       ELSE [ed EXCEPT !.status = "quit"]
    IN IF command = "q" THEN closing(Did(e1, "quit_command"))
       ELSE IF command = "w" THEN save_file(e1, <<>>, fs)
       ELSE IF Len(command) >= 2 /\ SubSeq(command, 1, 2) = "w "
       THEN IF Len(split_whitespace(command)) < 2 THEN Panic(Did(e1, "save_file"))
            ELSE save_file(e1, <<split_whitespace(command)[2]>>, fs)
       ELSE IF command = "wq"
       THEN LET saved == save_file(e1, <<>>, fs) IN
            IF saved.status # "running" THEN saved ELSE closing(saved)
       ELSE IF Len(command) >= 2 /\ SubSeq(command, 1, 2) = "e "
       THEN IF Len(split_whitespace(command)) < 2 THEN Panic(Did(e1, "open_file"))
            ELSE open_file(e1, split_whitespace(command)[2], fs)
       ELSE Did([e1 EXCEPT !.message = "unknown_command"], "unknown_command")

\* --------------------------------------------------------------------- keys
\* A key event: kind is the KeyCode variant, c the character of Char(c), n
\* the number of F(n), mods the set of modifiers held.
Key(kind, c, n, mods) == [kind |-> kind, c |-> c, n |-> n, mods |-> mods]
Ch(c) == Key("Char", c, 0, {})
Ctrl(c) == Key("Char", c, 0, {"CONTROL"})
Code(kind) == Key(kind, "", 0, {})
Fn(n) == Key("F", "", n, {})

\* format!("{}", n) for the numbers of the function keys
NumStr(n) ==
    CASE n = 1 -> "1" [] n = 2 -> "2" [] n = 3 -> "3" [] n = 4 -> "4"
      [] n = 5 -> "5" [] n = 6 -> "6" [] n = 7 -> "7" [] n = 8 -> "8"
      [] n = 9 -> "9" [] n = 10 -> "10" [] n = 11 -> "11" [] OTHER -> "12"

\* Editor::key_event_to_string
key_event_to_string(key) ==
    (IF "CONTROL" \in key.mods THEN "Ctrl+" ELSE "")
        \o (IF "ALT" \in key.mods THEN "Alt+" ELSE "")
        \o (IF "SHIFT" \in key.mods THEN "Shift+" ELSE "")
        \o (IF key.kind = "Char" THEN key.c
            ELSE IF key.kind = "F" THEN "F" \o NumStr(key.n)
            ELSE key.kind)

\* Keybindings::default().normal_mode, as (key string, action) pairs
normal_mode ==
    { <<"dd", "delete_line">>, <<"i", "enter_insert_mode">>,
      <<"Insert", "enter_insert_mode">>, <<"a", "append">>,
      <<"o", "open_line_below">>, <<"O", "open_line_above">>,
      <<"yy", "yank_line">>, <<"p", "paste_after">>,
      <<"v", "enter_visual_mode">>, <<":", "enter_command_mode">>,
      <<"Ctrl+b", "toggle_debug_menu">>, <<"Ctrl+e", "toggle_sidebar">>,
      <<"/", "enter_search_mode">>, <<"n", "next_search_result">>,
      <<"N", "previous_search_result">>, <<"Ctrl+y", "copy_selection">>,
      <<"Ctrl+p", "paste_clipboard">>, <<"Ctrl+u", "undo">>,
      <<"Ctrl+r", "redo">>, <<"Tab", "next_tab">>,
      <<"F1", "switch_to_tab_1">>, <<"F2", "switch_to_tab_2">>,
      <<"F3", "switch_to_tab_3">>, <<"F4", "switch_to_tab_4">>,
      <<"F5", "switch_to_tab_5">>, <<"F6", "switch_to_tab_6">>,
      <<"F7", "switch_to_tab_7">>, <<"F8", "switch_to_tab_8">>,
      <<"F9", "switch_to_tab_9">>, <<"Ctrl+t", "new_tab">>,
      <<"Ctrl+w", "close_tab">>, <<"Ctrl+Shift+Tab", "previous_tab">>,
      <<"Ctrl+m", "toggle_minimap">> }

\* HashMap::get: <<action>> or <<>>
binding(map, key_str) ==
    IF \E p \in map : p[1] = key_str
    THEN <<(CHOOSE p \in map : p[1] = key_str)[2]>>
    ELSE <<>>

\* str::starts_with
starts_with(s, prefix) ==
    Len(prefix) <= Len(s) /\ SubSeq(s, 1, Len(prefix)) = prefix

\* the tab index of a "switch_to_tab_<n>" action, <<>> for any other action
switch_action_index(action) ==
    LET hits == {n \in 1..9 : action = "switch_to_tab_" \o NumStr(n)}
    IN IF hits = {} THEN <<>> ELSE <<(CHOOSE n \in hits : TRUE) - 1>>

\* Editor::execute_action; env is what the clipboard and the file system
\* answer during this event
execute_action(e, action, env) ==
    IF action = "enter_insert_mode"
    THEN Did([e EXCEPT !.mode = "Insert"], "enter_insert_mode")
    ELSE IF action = "append"
    THEN move_cursor_right([e EXCEPT !.mode = "Insert"])
    ELSE IF action = "open_line_below"
    THEN LET r == insert_line_below(e) IN
         IF r.status = "running" THEN [r EXCEPT !.mode = "Insert"] ELSE r
    ELSE IF action = "open_line_above"
    THEN LET r == insert_line_above(e) IN
         IF r.status = "running" THEN [r EXCEPT !.mode = "Insert"] ELSE r
    ELSE IF action = "delete_line" THEN delete_line(e, env.clip_ok)
    ELSE IF action = "yank_line" THEN yank_line(e, env.clip_ok)
    ELSE IF action = "paste_after" THEN paste_after(e, env.clip_ok, env.held)
    ELSE IF action = "enter_visual_mode"
    THEN Did([e EXCEPT !.mode = "Visual", !.visual_start = e.cursor_position],
             "enter_visual_mode")
    ELSE IF action = "enter_command_mode"
    THEN Did([e EXCEPT !.mode = "Command", !.command_buffer = ""],
             "enter_command_mode")
    ELSE IF action = "toggle_debug_menu" THEN Did(e, "toggle_debug_menu")
    ELSE IF action = "enter_search_mode" THEN enter_search_mode(e)
    ELSE IF action = "next_search_result" THEN next_search_result(e)
    ELSE IF action = "previous_search_result" THEN previous_search_result(e)
    ELSE IF action = "copy_selection" THEN copy_selection(e, env.clip_ok, env.overflow_checks)
    ELSE IF action = "paste_clipboard"
    THEN paste_clipboard(e, env.clip_ok, env.clip_ok2, env.held)
    ELSE IF action = "undo" THEN undo(e)
    ELSE IF action = "redo" THEN redo(e)
    ELSE IF action = "toggle_sidebar" THEN toggle_sidebar(e, env)
    ELSE IF action = "next_tab" THEN update_current_tab_info(next_tab(e))
    ELSE IF action = "previous_tab" THEN update_current_tab_info(previous_tab(e))
    ELSE IF switch_action_index(action) # <<>>
    THEN update_current_tab_info(switch_to_tab(e, switch_action_index(action)[1]))
    ELSE IF action = "new_tab" THEN update_current_tab_info(new_tab(e))
    ELSE IF action = "close_tab" THEN update_current_tab_info(close_tab(e))
    ELSE IF action = "toggle_minimap" THEN Did(e, "toggle_minimap")
    ELSE Did(e, "no_action")

\* handle_normal_mode reading the pending key without taking it
handle_normal_mode_keep_pending(e, key, env) ==
    LET key_str == key_event_to_string(key)
        combined == IF e.pending_key = <<>> THEN <<>>
                    ELSE binding(normal_mode, e.pending_key[1] \o key_str)
    IN IF combined # <<>>
       THEN execute_action([e EXCEPT !.pending_key = <<>>], combined[1], env)
       ELSE IF binding(normal_mode, key_str) # <<>>
       THEN execute_action(e, binding(normal_mode, key_str)[1], env)
       ELSE IF \E p \in normal_mode : starts_with(p[1], key_str)
       THEN Did([e EXCEPT !.pending_key = <<key_str>>], "pending")
       ELSE Did(e, "unbound_key")

\* handle_normal_mode buffering every key that has no binding of its own
handle_normal_mode_buffer_all(e, key, env) ==
    LET key_str == key_event_to_string(key)
        e1 == [e EXCEPT !.pending_key = <<>>]
        combined == IF e.pending_key = <<>> THEN <<>>
                    ELSE binding(normal_mode, e.pending_key[1] \o key_str)
    IN IF combined # <<>> THEN execute_action(e1, combined[1], env)
       ELSE IF binding(normal_mode, key_str) # <<>>
       THEN execute_action(e1, binding(normal_mode, key_str)[1], env)
       ELSE Did([e1 EXCEPT !.pending_key = <<key_str>>], "pending")

\* Editor::handle_normal_mode
handle_normal_mode(e, key, env) ==
    LET key_str == key_event_to_string(key)
        e1 == [e EXCEPT !.pending_key = <<>>]
        combined == IF e.pending_key = <<>> THEN <<>>
                    ELSE binding(normal_mode, e.pending_key[1] \o key_str)
    IN IF combined # <<>> THEN execute_action(e1, combined[1], env)
       ELSE IF binding(normal_mode, key_str) # <<>>
       THEN execute_action(e1, binding(normal_mode, key_str)[1], env)
       ELSE IF \E p \in normal_mode : starts_with(p[1], key_str)
       THEN Did([e1 EXCEPT !.pending_key = <<key_str>>], "pending")
       ELSE IF key.kind = "Left" THEN move_cursor_left(e1)
       ELSE IF key.kind = "Down" THEN move_cursor_down(e1)
       ELSE IF key.kind = "Up" THEN move_cursor_up(e1)
       ELSE IF key.kind = "Right" THEN move_cursor_right(e1)
       ELSE IF key.kind = "Home" THEN move_cursor_start_of_line(e1)
       ELSE IF key.kind = "End" THEN move_cursor_end_of_line(e1)
       ELSE IF key.kind = "PageUp" THEN page_up(e1)
       ELSE IF key.kind = "PageDown" THEN page_down(e1)
       ELSE IF key.kind = "Tab" THEN update_current_tab_info(next_tab(e1))
       ELSE IF key.kind = "BackTab" THEN update_current_tab_info(previous_tab(e1))
       ELSE Did(e1, "unbound_key")

\* Editor::handle_insert_mode
handle_insert_mode(e, key) ==
    IF key.kind = "Esc" THEN Did([e EXCEPT !.mode = "Normal"], "exit_mode")
    ELSE IF key.kind = "Enter" THEN insert_newline(e)
    ELSE IF key.kind = "Backspace" THEN backspace(e)
    ELSE IF key.kind = "Delete" THEN delete_char(e)
    ELSE IF key.kind = "Left" THEN move_cursor_left(e)
    ELSE IF key.kind = "Down" THEN move_cursor_down(e)
    ELSE IF key.kind = "Up" THEN move_cursor_up(e)
    ELSE IF key.kind = "Right" THEN move_cursor_right(e)
    ELSE IF key.kind = "Char" THEN insert_char(e, key.c)
    ELSE Did(e, "unbound_key")

\* Editor::handle_command_mode followed by handle_key_event's Command arm
handle_command_mode(e, key, env) ==
    IF key.kind = "Enter" THEN execute_command(e, env)
    ELSE IF key.kind = "Char"
    THEN Did([e EXCEPT !.command_buffer = e.command_buffer \o key.c],
             "command_char")
    ELSE IF key.kind = "Backspace"
    THEN Did([e EXCEPT !.command_buffer =
                 SubSeq(e.command_buffer, 1, Len(e.command_buffer) - 1)],
             "command_backspace")
    ELSE IF key.kind = "Esc" THEN Did([e EXCEPT !.mode = "Normal"], "exit_mode")
    ELSE Did(e, "unbound_key")

\* Editor::handle_visual_mode
handle_visual_mode(e, key, env) ==
    IF key.kind = "Esc" THEN Did([e EXCEPT !.mode = "Normal"], "exit_mode")
    ELSE IF key.kind = "Left" THEN move_cursor_left(e)
    ELSE IF key.kind = "Down" THEN move_cursor_down(e)
    ELSE IF key.kind = "Up" THEN move_cursor_up(e)
    ELSE IF key.kind = "Right" THEN move_cursor_right(e)
    ELSE IF key.kind = "Char" /\ key.c = "y"
    THEN LET r == copy_selection(e, env.clip_ok, env.overflow_checks) IN
         IF r.status = "running" THEN [r EXCEPT !.mode = "Normal"] ELSE r
    ELSE IF key.kind = "Char" /\ key.c = "d"
    THEN LET r == delete_selection(e) IN
         IF r.status = "running" THEN [r EXCEPT !.mode = "Normal"] ELSE r
    ELSE Did(e, "unbound_key")

\* FileSelector::enter followed by open_file, as both file-choosing handlers
\* use them: env.sel is what the selected entry is, "dir" (Ok(None)), "file"
\* (Ok(Some(path))) or "err" (the directory cannot be read)
choose_entry(e, env) ==
    IF env.sel = "err" THEN Did([e EXCEPT !.status = "error"], "select_file")
    ELSE IF env.sel = "dir" THEN Did(e, "select_dir")
    ELSE open_file(e, env.path, env)

\* Editor::handle_file_select_mode
handle_file_select_mode(e, key, env) ==
    IF ~e.file_selector THEN Did(e, "unbound_key")
    ELSE IF key.kind = "Up" \/ key.kind = "Down" THEN Did(e, "selector_move")
    ELSE IF key.kind = "Enter"
    THEN LET r == choose_entry(e, env) IN
         IF r.status = "running" /\ env.sel = "file"
         THEN [r EXCEPT !.mode = "Normal", !.file_selector = FALSE] ELSE r
    ELSE IF key.kind = "Esc"
    THEN Did([e EXCEPT !.mode = "Normal", !.file_selector = FALSE], "exit_mode")
    ELSE Did(e, "unbound_key")

\* Editor::handle_search_mode
handle_search_mode(e, key) ==
    IF key.kind = "Esc" THEN Did([e EXCEPT !.mode = "Normal"], "exit_mode")
    ELSE IF key.kind = "Enter"
    THEN [perform_search(e) EXCEPT !.mode = "Normal"]
    ELSE IF key.kind = "Char"
    THEN Did([e EXCEPT !.search_query = e.search_query \o key.c], "search_char")
    ELSE IF key.kind = "Backspace"
    THEN Did([e EXCEPT !.search_query =
                 SubSeq(e.search_query, 1, Len(e.search_query) - 1)],
             "search_backspace")
    ELSE Did(e, "unbound_key")

\* Editor::handle_sidebar_active_mode
handle_sidebar_active_mode(e, key, env) ==
    IF binding(normal_mode, key_event_to_string(key)) = <<"toggle_sidebar">>
    THEN toggle_sidebar(e, env)
    ELSE IF ~e.file_selector THEN Did(e, "unbound_key")
    ELSE IF key.kind = "Up" \/ key.kind = "Down" THEN Did(e, "selector_move")
    ELSE IF key.kind = "Enter"
    THEN LET r == choose_entry(e, env) IN
         IF r.status = "running" /\ env.sel = "file"
         THEN toggle_sidebar(r, env) ELSE r
    ELSE IF key.kind = "Esc" THEN toggle_sidebar(e, env)
    ELSE Did(e, "unbound_key")

\* Editor::handle_key_event
handle_key_event(e, key, env) ==
    IF key.kind = "F" /\ key.n >= 1 /\ key.n <= 9 /\ key.n - 1 < Len(e.tabs)
    THEN switch_to_tab(e, key.n - 1)
    ELSE IF key.kind = "Char" /\ key.c = "q" /\ key.mods = {"CONTROL"}
    THEN Did([e EXCEPT !.status = "quit"], "quit")
    ELSE IF e.mode = "Normal" THEN handle_normal_mode(e, key, env)
    ELSE IF e.mode = "Insert" THEN handle_insert_mode(e, key)
    ELSE IF e.mode = "Command" THEN handle_command_mode(e, key, env)
    ELSE IF e.mode = "Visual" THEN handle_visual_mode(e, key, env)
    ELSE IF e.mode \in {"FileSelect", "DirectoryNav"}
    THEN handle_file_select_mode(e, key, env)
    ELSE IF e.mode = "Search" THEN handle_search_mode(e, key)
    ELSE handle_sidebar_active_mode(e, key, env)

\* -------------------------------------------------------------------- state
VARIABLES
    tabs,                   \* Editor.tabs: the sequence of Tab records
    active_tab,             \* Editor.active_tab, 0-based
    mode,                   \* Editor.mode
    pending_key,            \* Editor.pending_key: Option<String>
    cursor_position,        \* Editor.cursor_position, the editor-level copy
    visual_start,           \* Editor.visual_start
    clipboard,              \* Option: the text the last event put on the clipboard
    clipboard_kind,         \* ClipboardWrapper: "Real" or "Dummy"
    command_buffer,         \* Editor.command_buffer
    search_query,           \* Editor.search_query
    search_results,         \* Editor.search_results: (line_num, col) pairs
    current_search_index,   \* Editor.current_search_index
    file_selector,          \* Editor.file_selector is Some
    show_sidebar,           \* Editor.show_sidebar
    mouse_selection_start,  \* Editor.mouse_selection_start: Option
    mouse_selection_end,    \* Editor.mouse_selection_end: Option
    status,                 \* "running", "quit", "error" or "panicked"
    message,                \* the kind of the last debug message pushed
    last_op                 \* the operation the last event ran

vars == <<tabs, active_tab, mode, pending_key, cursor_position, visual_start,
          clipboard, clipboard_kind, command_buffer, search_query,
          search_results, current_search_index, file_selector, show_sidebar,
          mouse_selection_start, mouse_selection_end, status, message,
          last_op>>

\* the editor as one record, the argument of the operators above
Ed ==
    [tabs |-> tabs, active_tab |-> active_tab, mode |-> mode,
     pending_key |-> pending_key, cursor_position |-> cursor_position,
     visual_start |-> visual_start, clipboard |-> clipboard,
     clipboard_kind |-> clipboard_kind, command_buffer |-> command_buffer,
     search_query |-> search_query, search_results |-> search_results,
     current_search_index |-> current_search_index,
     file_selector |-> file_selector, show_sidebar |-> show_sidebar,
     mouse_selection_start |-> mouse_selection_start,
     mouse_selection_end |-> mouse_selection_end,
     status |-> status, message |-> message, last_op |-> last_op]

\* the next state is the editor record e
Becomes(e) ==
    /\ tabs' = e.tabs
    /\ active_tab' = e.active_tab
    /\ mode' = e.mode
    /\ pending_key' = e.pending_key
    /\ cursor_position' = e.cursor_position
    /\ visual_start' = e.visual_start
    /\ clipboard' = e.clipboard
    /\ clipboard_kind' = e.clipboard_kind
    /\ command_buffer' = e.command_buffer
    /\ search_query' = e.search_query
    /\ search_results' = e.search_results
    /\ current_search_index' = e.current_search_index
    /\ file_selector' = e.file_selector
    /\ show_sidebar' = e.show_sidebar
    /\ mouse_selection_start' = e.mouse_selection_start
    /\ mouse_selection_end' = e.mouse_selection_end
    /\ status' = e.status
    /\ message' = e.message
    /\ last_op' = e.last_op

\* ------------------------------------------------------------------- inputs
\* the characters typed into a buffer: an ASCII one and the two-byte one
InsertChars == {"a", WideChar}

\* the files main() may be started on
InitFileTexts == {"a\n", "{}\n", "aa\n\n", "\na\n"}

\* what the system clipboard may hold when it is read
ClipTexts == {"", "a", "{}\na", "a\n\na"}

\* what the environment answers during one event
Env(clip_ok, clip_ok2, held, overflow_checks, kind, text, write_ok, dir_ok, sel) ==
    [clip_ok |-> clip_ok, clip_ok2 |-> clip_ok2, held |-> held,
     overflow_checks |-> overflow_checks, kind |-> kind, text |-> text,
     write_ok |-> write_ok, dir_ok |-> dir_ok, sel |-> sel, path |-> "f"]
DefaultEnv == Env(TRUE, TRUE, "", TRUE, "missing", "", TRUE, TRUE, "dir")
SetEnvs == {[DefaultEnv EXCEPT !.clip_ok = a] : a \in BOOLEAN}
YankEnvs ==
    {[DefaultEnv EXCEPT !.clip_ok = a, !.overflow_checks = o] : a, o \in BOOLEAN}
PasteEnvs ==
    {[DefaultEnv EXCEPT !.clip_ok = FALSE]}
        \cup {[DefaultEnv EXCEPT !.clip_ok2 = b, !.held = t] :
                 b \in BOOLEAN, t \in ClipTexts}

\* the answers that matter for a key: the clipboard for the yank, delete and
\* paste keys; the other keys of the editing specification read none
EnvsFor(key) ==
    IF key.kind = "Char" /\ key.c = "y" THEN YankEnvs
    ELSE IF key = Ch("d") /\ mode = "Normal" THEN SetEnvs
    ELSE IF key.kind = "Char" /\ key.c = "p" THEN PasteEnvs
    ELSE {DefaultEnv}

\* the bounds of the model: an event whose result exceeds them is not taken
WithinBounds(e) ==
    /\ Len(e.tabs) <= MaxTabs
    /\ \A i \in 1..Len(e.tabs) :
          /\ Len(e.tabs[i].content) <= MaxLines
          /\ \A j \in 1..Len(e.tabs[i].content) :
                Len(e.tabs[i].content[j]) <= MaxLineLen
          /\ Len(e.tabs[i].undo_stack) + Len(e.tabs[i].redo_stack) <= MaxHistory

\* --------------------------------------------------------------- behaviour
\* Editor::new(), every field but the tabs and the clipboard
InitEditor ==
    /\ active_tab = 0
    /\ mode = "Normal"
    /\ file_selector = FALSE
    /\ pending_key = <<>>
    /\ cursor_position = <<0, 0>>
    /\ visual_start = <<0, 0>>
    /\ command_buffer = ""
    /\ search_query = ""
    /\ search_results = <<>>
    /\ current_search_index = 0
    /\ show_sidebar = FALSE
    /\ mouse_selection_start = <<>>
    /\ mouse_selection_end = <<>>
    /\ status = "running"
    /\ message = "none"
    /\ last_op = "init"

\* main(): Editor::new(), or Editor::with_file(path) on a readable file, with
\* a system clipboard
Init ==
    /\ InitEditor
    /\ tabs \in {<<Tab_new>>} \cup {<<Tab_from_file("f", t)>> : t \in InitFileTexts}
    /\ clipboard_kind = "Real"
    /\ clipboard = <<>>

\* the editor as an event finds it: the message and the clipboard record of
\* the previous event are over
AtEvent == [Ed EXCEPT !.message = "none", !.clipboard = <<>>]

\* every editor handle_key_event may leave for a key of K
Outcomes(K) ==
    UNION {{handle_key_event(AtEvent, key, env) : env \in EnvsFor(key)} : key \in K}

\* run_app handles one key event of the set K, within the bounds
Handles(K) == \E e \in Outcomes(K) : WithinBounds(e) /\ Becomes(e)

\* the keys of the editing specification
CursorKeys ==
    {Code(k) : k \in {"Left", "Right", "Up", "Down", "Home", "End", "PageUp",
                      "PageDown"}}
EditNormalKeys ==
    {Ch(c) : c \in {"i", "a", "o", "O", "d", "p", "v", "x"}}
        \cup {Ctrl(c) : c \in {"y", "p", "u", "r"}}
        \cup CursorKeys
EditInsertKeys ==
    {Ch(c) : c \in InsertChars}
        \cup {Code(k) : k \in {"Esc", "Enter", "Backspace", "Delete", "Left",
                               "Right", "Up", "Down"}}
EditVisualKeys ==
    {Ch("y"), Ch("d"), Ch("x")}
        \cup {Code(k) : k \in {"Esc", "Left", "Right", "Up", "Down"}}

\* run_app: a key event in Normal mode
NormalKey ==
    /\ status = "running"
    /\ mode = "Normal"
    /\ Handles(EditNormalKeys)

\* run_app: a key event in Insert mode
InsertKey ==
    /\ status = "running"
    /\ mode = "Insert"
    /\ Handles(EditInsertKeys)

\* run_app: a key event in Visual mode
VisualKey ==
    /\ status = "running"
    /\ mode = "Visual"
    /\ Handles(EditVisualKeys)

Next ==
    \/ NormalKey
    \/ InsertKey
    \/ VisualKey

Spec == Init /\ [][Next]_vars

\* the tabs specification: opening, closing and switching tabs, with the
\* "dd" chord and typing to tell the tabs apart
TabNormalKeys ==
    {Ctrl("t"), Ctrl("w"), Code("Tab"),
     Key("Tab", "", 0, {"CONTROL", "SHIFT"}), Fn(1), Fn(2), Fn(3),
     Ch("d"), Ch("i"), Code("Down")}
TabInsertKeys == {Ch("a"), Code("Esc"), Fn(1), Fn(2)}

TabsNormalKey ==
    /\ status = "running"
    /\ mode = "Normal"
    /\ Handles(TabNormalKeys)

TabsInsertKey ==
    /\ status = "running"
    /\ mode = "Insert"
    /\ Handles(TabInsertKeys)

NextTabs ==
    \/ TabsNormalKey
    \/ TabsInsertKey

\* main(): Editor::new(), or Editor::with_file(path) on a two-line file
InitTabs ==
    /\ InitEditor
    /\ tabs \in {<<Tab_new>>, <<Tab_from_file("f", "aa\n\n")>>}
    /\ clipboard_kind = "Real"
    /\ clipboard = <<>>

SpecTabs == InitTabs /\ [][NextTabs]_vars

\* the history specification: one buffer, a character typed and taken back
\* over and over, with undo and redo, so that the undo stack fills up
HistoryEditKey ==
    IF Active(Ed).cursor_position[1] > 0 THEN Code("Backspace") ELSE Ch("a")

\* run_app: the edit key or Esc in Insert mode; the history is not bounded
HistoryInsertKey ==
    /\ status = "running"
    /\ mode = "Insert"
    /\ \E e \in Outcomes({HistoryEditKey, Code("Esc")}) : Becomes(e)

\* run_app: "i", undo or redo in Normal mode
HistoryNormalKey ==
    /\ status = "running"
    /\ mode = "Normal"
    /\ \E e \in Outcomes({Ch("i"), Ctrl("u"), Ctrl("r")}) : Becomes(e)

InitHistory ==
    /\ InitEditor
    /\ tabs = <<Tab_new>>
    /\ clipboard_kind = "Real"
    /\ clipboard = <<>>

NextHistory ==
    \/ HistoryInsertKey
    \/ HistoryNormalKey

SpecHistory == InitHistory /\ [][NextHistory]_vars

\* ------------------------------------------------------------ properties
\* the cursor of a tab is in bounds: the buffer has a line, the cursor line
\* exists and the cursor column is at most the length of that line
CursorInBounds(tab) ==
    /\ Len(tab.content) >= 1
    /\ tab.cursor_position[2] < Len(tab.content)
    /\ tab.cursor_position[1] <= Len(tab.content[tab.cursor_position[2] + 1])

\* the operations that save the state before they change the buffer
MutatingOps ==
    {"insert_char", "insert_newline", "backspace", "delete_char", "delete_line",
     "insert_line_above", "insert_line_below", "paste_after", "paste_clipboard",
     "delete_selection"}

\* tab t shows what tab t0 showed: lines, cursor and both offsets
Restored(t, t0) ==
    /\ t.content = t0.content
    /\ t.cursor_position = t0.cursor_position
    /\ t.scroll_offset = t0.scroll_offset
    /\ t.horizontal_scroll = t0.horizontal_scroll

\* the keys of the editing specification in the current mode
ModeKeys ==
    IF mode = "Normal" THEN EditNormalKeys
    ELSE IF mode = "Insert" THEN EditInsertKeys
    ELSE EditVisualKeys

\* C1: in every state the running editor reaches, every tab's buffer has at
\* least one line, its cursor line is less than the number of lines and its
\* cursor column is at most the length of the cursor's line.
C1_CursorInBounds ==
    status = "running" => \A i \in 1..Len(tabs) : CursorInBounds(tabs[i])

\* C2: in a state S a mutating operation has just produced, undo() followed
\* at once by redo() gives S again: the same lines, cursor, offsets and the
\* same undo and redo stacks, in every tab.
C2_UndoRedoRoundTrip ==
    (status = "running" /\ last_op \in MutatingOps)
        => redo(undo(Ed)).tabs = tabs

\* C2 happens: an Enter has split a line, undo takes the split back, and
\* redo brings the split and both stacks back
C2_Witness ==
    /\ status = "running"
    /\ last_op = "insert_newline"
    /\ Active(Ed).undo_stack # <<>>
    /\ Active(undo(Ed)).content # Active(Ed).content
    /\ redo(undo(Ed)).tabs = tabs

\* C3: whenever a key event runs a mutating operation to its end, an undo()
\* right after it restores the lines, cursor, vertical and horizontal offset
\* the active tab had before the event.
C3_UndoRestoresPreState ==
    status = "running" =>
        \A r \in Outcomes(ModeKeys) :
            (r.status = "running" /\ r.last_op \in MutatingOps)
                => Restored(Active(undo(r)), Active(Ed))

\* C3 happens: a visual-mode delete has changed the buffer and the undo
\* stack holds the state before it
C3_Witness ==
    /\ status = "running"
    /\ last_op = "delete_selection"
    /\ Active(Ed).undo_stack # <<>>
    /\ Head(Active(Ed).undo_stack).content # Active(Ed).content
    /\ Restored(Active(undo(Ed)), Head(Active(Ed).undo_stack))

\* C5: after a mutating operation the active tab's redo stack is empty and a
\* redo() changes no tab, whatever the redo stack held before the operation.
C5_RedoEmptyAfterEdit ==
    /\ (status = "running" /\ last_op \in MutatingOps)
           => Active(Ed).redo_stack = <<>> /\ redo(Ed).tabs = tabs
    /\ status = "running" =>
           \A r \in Outcomes(ModeKeys) :
               (r.status = "running" /\ r.last_op \in MutatingOps)
                   => Active(r).redo_stack = <<>> /\ redo(r).tabs = r.tabs

\* C5 happens: after an undo the redo stack holds a state, and a key of the
\* current mode edits the buffer
C5_Witness ==
    /\ status = "running"
    /\ Active(Ed).redo_stack # <<>>
    /\ \E r \in Outcomes(ModeKeys) :
          /\ r.status = "running"
          /\ r.last_op \in MutatingOps
          /\ Active(r).content # Active(Ed).content
          /\ Active(r).redo_stack = <<>>

\* C8: in Normal mode with no key pending, "d" only buffers "d"; a following
\* "d" deletes the cursor's line and clears the pending key, whatever the
\* clipboard answers; a following "x" changes no tab and clears the pending
\* key.
C8_ChordResolution ==
    (status = "running" /\ mode = "Normal" /\ pending_key = <<>>
         /\ CursorInBounds(Active(Ed))) =>
        LET r1 == handle_key_event(AtEvent, Ch("d"), DefaultEnv)
            y == Active(Ed).cursor_position[2]
            left == VecRemove(Active(Ed).content, y)
        IN /\ r1.pending_key = <<"d">>
           /\ r1.tabs = tabs
           /\ r1.mode = "Normal"
           /\ \A env \in SetEnvs :
                 LET r2 == handle_key_event(r1, Ch("d"), env) IN
                 /\ r2.status = "running"
                 /\ r2.pending_key = <<>>
                 /\ Active(r2).content = IF left = <<>> THEN <<"">> ELSE left
           /\ LET r3 == handle_key_event(r1, Ch("x"), DefaultEnv) IN
              /\ r3.status = "running"
              /\ r3.pending_key = <<>>
              /\ r3.tabs = tabs

\* C10: from a state with the cursor in bounds, insert_char(c) followed at
\* once by backspace() runs to its end and restores the lines and the cursor,
\* for every character c.
C10_InsertBackspaceRoundTrip ==
    (status = "running" /\ CursorInBounds(Active(Ed))) =>
        \A c \in InsertChars :
            LET r1 == insert_char(Ed, c) IN
            /\ r1.status = "running"
            /\ LET r2 == backspace(r1) IN
               /\ r2.status = "running"
               /\ Active(r2).content = Active(Ed).content
               /\ Active(r2).cursor_position = Active(Ed).cursor_position

\* the keys of the history specification in the current mode
HistoryKeys ==
    IF mode = "Insert" THEN {HistoryEditKey, Code("Esc")}
    ELSE {Ch("i"), Ctrl("u"), Ctrl("r")}

\* C4: every tab's undo stack holds at most 100 snapshots, after redo() too;
\* a mutating operation on a full stack puts the state before it on top and
\* keeps the 99 most recent of the old snapshots below it, in order: the
\* oldest one is discarded.
C4_UndoStackCapped ==
    /\ \A i \in 1..Len(tabs) : Len(tabs[i].undo_stack) <= UndoLimit
    /\ (status = "running" /\ Len(Active(Ed).undo_stack) = UndoLimit) =>
           \A r \in Outcomes(HistoryKeys) :
               (r.status = "running" /\ r.last_op \in MutatingOps) =>
                   Active(r).undo_stack =
                       <<EditOperation(Active(Ed))>>
                           \o SubSeq(Active(Ed).undo_stack, 1, UndoLimit - 1)

\* C4 happens: the stack is full after a mutating operation and its oldest
\* snapshot is no longer the first one taken, that of the empty buffer
C4_Witness ==
    /\ status = "running"
    /\ last_op \in MutatingOps
    /\ Len(Active(Ed).undo_stack) = UndoLimit
    /\ Active(Ed).undo_stack[UndoLimit].content = <<"a">>

\* C6 as stated: the tabs are never empty and 1 <= active index < number of
\* tabs.
C6_ActiveIndexFromOne ==
    /\ tabs # <<>>
    /\ 1 <= active_tab
    /\ active_tab < Len(tabs)

\* C6, amended: the tabs are never empty and 0 <= active index < number of
\* tabs.
C6_TabsNonEmptyActiveValid ==
    /\ Len(tabs) >= 1
    /\ 0 <= active_tab
    /\ active_tab < Len(tabs)

\* C6 happens: a tab has been closed and the last of the remaining tabs is
\* the active one
C6_Witness ==
    /\ status = "running"
    /\ last_op = "close_tab"
    /\ Len(tabs) = 2
    /\ active_tab = 1

\* C7: close_tab() with one tab changes neither the tabs nor the active
\* index; with n >= 2 tabs it removes the active tab, keeps the others as
\* they are and in their order, and leaves the active index at one of the
\* n-1 tabs.
C7_CloseTab ==
    status = "running" =>
        LET r == close_tab(Ed)
            n == Len(tabs)
        IN IF n = 1
           THEN r.tabs = tabs /\ r.active_tab = active_tab
           ELSE /\ r.status = "running"
                /\ Len(r.tabs) = n - 1
                /\ \A i \in 1..(n - 1) :
                      r.tabs[i] = IF i <= active_tab THEN tabs[i] ELSE tabs[i + 1]
                /\ r.active_tab \in 0..(n - 2)

\* C7 happens: one of three tabs has been closed and the two that remain
\* differ
C7_Witness ==
    /\ status = "running"
    /\ last_op = "close_tab"
    /\ Len(tabs) = 2
    /\ tabs[1] # tabs[2]

\* C9: the key event after the one that buffered a pending key never leaves
\* that pending key stored.
C9_PendingCleared ==
    [][pending_key # <<>> => pending_key' # pending_key]_vars

\* ------------------------------------------------------ typing specification
\* one scratch buffer in Insert mode: characters are typed, the cursor is
\* taken left, Enter splits the line and Backspace takes the split back
TypedChars == {"a", "b", WideChar}

\* run_app: "i" in Normal mode
TypingStart ==
    /\ status = "running"
    /\ mode = "Normal"
    /\ Becomes(handle_key_event(AtEvent, Ch("i"), DefaultEnv))

\* run_app: a character typed after the previous one, MaxTyped of them
TypingChar ==
    /\ status = "running"
    /\ mode = "Insert"
    /\ last_op \in {"enter_insert_mode", "insert_char"}
    /\ Len(Active(Ed).undo_stack) < MaxTyped
    /\ \E c \in TypedChars : Becomes(handle_key_event(AtEvent, Ch(c), DefaultEnv))

\* run_app: Left, before any Enter
TypingLeft ==
    /\ status = "running"
    /\ mode = "Insert"
    /\ last_op \in {"insert_char", "move"}
    /\ Becomes(handle_key_event(AtEvent, Code("Left"), DefaultEnv))

\* run_app: Enter on the single line
TypingEnter ==
    /\ status = "running"
    /\ mode = "Insert"
    /\ last_op \in {"enter_insert_mode", "insert_char", "move"}
    /\ Becomes(handle_key_event(AtEvent, Code("Enter"), DefaultEnv))

\* run_app: Backspace right after Enter
TypingBackspace ==
    /\ status = "running"
    /\ mode = "Insert"
    /\ last_op = "insert_newline"
    /\ Becomes(handle_key_event(AtEvent, Code("Backspace"), DefaultEnv))

NextTyping ==
    \/ TypingStart
    \/ TypingChar
    \/ TypingLeft
    \/ TypingEnter
    \/ TypingBackspace

SpecTyping == InitHistory /\ [][NextTyping]_vars

\* the number of characters of s, and the bytes of its first c characters
NumChars(s) == Cardinality({i \in 1..Len(s) : SubSeq(s, i, i) # WideCont})
TakeChars(s, c) ==
    LET ends == {b \in 0..Len(s) :
                    is_char_boundary(s, b) /\ NumChars(Slice(s, 0, b)) = c}
    IN IF ends = {} THEN s
       ELSE Slice(s, 0, CHOOSE b \in ends : \A x \in ends : b <= x)

\* C11: from the empty buffer in Insert mode no key of a typing session ends
\* the editor; after n characters typed the buffer is one line, the line
\* before with one character more, n characters in all, and the cursor is at
\* (n,0); Enter at column c leaves the first c characters of the line and the
\* rest as two lines with the cursor at (0,1); Backspace there gives back the
\* line and the cursor of before the Enter.
C11_TypeSplitJoin ==
    LET t == Active(Ed)
        u == t.undo_stack
    IN /\ status # "panicked"
       /\ (status = "running" /\ last_op = "insert_char") =>
              /\ Len(t.content) = 1
              /\ NumChars(t.content[1]) = Len(u)
              /\ TakeChars(t.content[1], Len(u) - 1) = u[1].content[1]
              /\ t.cursor_position = <<Len(u), 0>>
       /\ (status = "running" /\ last_op = "insert_newline") =>
              LET line == u[1].content[1]
                  c == u[1].cursor_position[1]
                  first == TakeChars(line, c)
              IN /\ t.content = <<first, Slice(line, Len(first), Len(line))>>
                 /\ t.cursor_position = <<0, 1>>
       /\ (status = "running" /\ last_op = "backspace") =>
              /\ t.content = u[2].content
              /\ t.cursor_position = u[2].cursor_position

\* --------------------------------------------------- selection specification
\* one file of three lines; the cursor is moved, Visual mode is entered and
\* left by yank or Esc, and the mouse selects
SelectFileText == "abc\nde\nfghi\n"
ArrowKeys == {Code(k) : k \in {"Left", "Right", "Up", "Down"}}

\* the mouse cells used: columns left of the minimap column, rows of the
\* first two lines
MouseCells == {1, 3} \X {4, 5}

InitSelect ==
    /\ InitEditor
    /\ tabs = <<Tab_from_file("f", SelectFileText)>>
    /\ clipboard_kind = "Real"
    /\ clipboard = <<>>

\* run_app: a key in Normal mode
SelectNormalKey ==
    /\ status = "running"
    /\ mode = "Normal"
    /\ \E e \in Outcomes(ArrowKeys \cup {Ch("v")}) : Becomes(e)

\* run_app: a key in Visual mode
SelectVisualKey ==
    /\ status = "running"
    /\ mode = "Visual"
    /\ \E e \in Outcomes(ArrowKeys \cup {Ch("y"), Code("Esc")}) : Becomes(e)

\* run_app: MouseEventKind::Down(Left) outside the minimap
MouseDown ==
    /\ status = "running"
    /\ \E c \in MouseCells :
          Becomes(start_mouse_selection(AtEvent, c[1], c[2]))

\* run_app: MouseEventKind::Drag(Left)
MouseDrag ==
    /\ status = "running"
    /\ \E c \in MouseCells :
          Becomes(update_mouse_selection(AtEvent, c[1], c[2]))

\* run_app: MouseEventKind::Up(Right)
MouseUp ==
    /\ status = "running"
    /\ \E clip_ok \in BOOLEAN :
          Becomes(end_mouse_selection(
              copy_selection_to_clipboard(AtEvent, clip_ok)))

NextSelect ==
    \/ SelectNormalKey
    \/ SelectVisualKey
    \/ MouseDown
    \/ MouseDrag
    \/ MouseUp

SpecSelect == InitSelect /\ [][NextSelect]_vars

\* (line, column) lexicographic order on (column, line) positions
LineColLe(p, q) == p[2] < q[2] \/ (p[2] = q[2] /\ p[1] <= q[1])

\* C12: the normalized range of the visual pair (anchor, cursor) and of the
\* mouse pair (drag start, drag end) has its start at or before its end in
\* (line, column) order: start.line <= end.line, and start.column <=
\* end.column when the lines are equal.
C12_NormalizedRange ==
    /\ mode = "Visual" =>
           LineColLe(selection_range(Ed)[1], selection_range(Ed)[2])
    /\ (mouse_selection_start # <<>> /\ mouse_selection_end # <<>>) =>
           LineColLe(mouse_selection_range(Ed)[1], mouse_selection_range(Ed)[2])

\* the lines joined by newline characters
RECURSIVE JoinLines(_)
JoinLines(lines) ==
    IF Len(lines) = 1 THEN lines[1]
    ELSE lines[1] \o NL \o JoinLines(Tail(lines))

\* C13: in Visual mode with the anchor at (0,0) and the cursor at the end of
\* the last line, the yank key with a clipboard that accepts the call writes
\* to the clipboard all lines of the buffer joined by newline characters.
C13_YankWholeContent ==
    LET t == Active(Ed)
        n == Len(t.content)
    IN (/\ status = "running"
        /\ mode = "Visual"
        /\ visual_start = <<0, 0>>
        /\ t.cursor_position = <<Len(t.content[n]), n - 1>>) =>
           \A env \in YankEnvs :
               env.clip_ok =>
                   LET r == handle_key_event(AtEvent, Ch("y"), env)
                   IN /\ r.status = "running"
                      /\ r.clipboard = <<JoinLines(t.content)>>

\* C13 happens: the whole of ["abc","de","fghi"] was selected from (0,0) to
\* line 2 column 4 and yanked
C13_Witness ==
    /\ status = "running"
    /\ last_op = "copy_selection"
    /\ visual_start = <<0, 0>>
    /\ Active(Ed).cursor_position = <<4, 2>>
    /\ clipboard = <<"abc\nde\nfghi">>

\* ----------------------------------------------------- command specification
\* command lines are typed and run over one to MaxTabs tabs, with a file
\* system that may refuse to read or to write
CommandLines == {"q", "w", "wq", "w f", "e f", "x"}

\* what the file system answers to the command run
FileEnvs ==
    {[DefaultEnv EXCEPT !.kind = k, !.text = "a\n", !.write_ok = w] :
        k \in {"ok", "missing", "err"}, w \in BOOLEAN}

\* run_app: ":", Ctrl+t or Ctrl+q in Normal mode
CommandNormalKey ==
    /\ status = "running"
    /\ mode = "Normal"
    /\ Handles({Ch(":"), Ctrl("t"), Ctrl("q")})

\* run_app: the next character of one of the command lines
CommandChar ==
    /\ status = "running"
    /\ mode = "Command"
    /\ \E c \in {"q", "w", "e", "x", "f", " "} :
          /\ \E l \in CommandLines : starts_with(l, command_buffer \o c)
          /\ Becomes(handle_key_event(AtEvent, Ch(c), DefaultEnv))

\* run_app: Enter in Command mode
CommandEnter ==
    /\ status = "running"
    /\ mode = "Command"
    /\ \E env \in FileEnvs :
          LET e == handle_key_event(AtEvent, Code("Enter"), env)
          IN WithinBounds(e) /\ Becomes(e)

\* run_app: Esc or Ctrl+q in Command mode
CommandLeave ==
    /\ status = "running"
    /\ mode = "Command"
    /\ Handles({Code("Esc"), Ctrl("q")})

NextCommand ==
    \/ CommandNormalKey
    \/ CommandChar
    \/ CommandEnter
    \/ CommandLeave

SpecCommand == InitTabs /\ [][NextCommand]_vars

\* C14: no failure of a file operation ends the editor: Enter on :w, :w f,
\* :wq or :e f, whatever the file system answers and whether or not the tab
\* has a path, never ends the editor with an error; the editor keeps running
\* or, for :wq on the last tab, quits.
C14_FileErrorsNotFatal ==
    (status = "running" /\ mode = "Command"
        /\ command_buffer \in {"w", "w f", "wq", "e f"}) =>
        \A env \in FileEnvs :
            handle_key_event(AtEvent, Code("Enter"), env).status
                \in {"running", "quit"}

\* C15: when the clipboard refuses the call, yank_line, delete_line,
\* paste_after and paste_clipboard in Normal mode, and copy_selection in
\* Visual mode, leave the editor running with the active buffer's lines and
\* cursor as they were before the operation.
C15_ClipboardFailureHarmless ==
    LET t == Active(Ed)
        Same(r) == /\ r.status = "running"
                   /\ Active(r).content = t.content
                   /\ Active(r).cursor_position = t.cursor_position
    IN /\ (status = "running" /\ mode = "Normal") =>
              /\ Same(yank_line(AtEvent, FALSE))
              /\ Same(delete_line(AtEvent, FALSE))
              /\ Same(paste_after(AtEvent, FALSE, ""))
              /\ Same(paste_clipboard(AtEvent, FALSE, TRUE, ""))
       /\ (status = "running" /\ mode = "Visual") =>
              LET r == copy_selection(AtEvent, FALSE, FALSE)
              IN r.message = "copy_failed" => Same(r)

\* the keys of the command specification
CommandKeys ==
    {Ch(c) : c \in {":", "q", "w", "e", "x", "f", " "}}
        \cup {Ctrl("t"), Ctrl("q"), Code("Enter"), Code("Esc")}

\* C16: a key signals quit only if it is Ctrl+q, or Enter on the command q
\* or wq with exactly one tab open; with two or more tabs Enter on q or wq
\* removes the active tab only and the editor keeps running.
C16_QuitOnlyExplicit ==
    status = "running" =>
        \A env \in FileEnvs :
            /\ \A key \in CommandKeys :
                  handle_key_event(AtEvent, key, env).status = "quit" =>
                      \/ key = Ctrl("q")
                      \/ /\ mode = "Command"
                         /\ key = Code("Enter")
                         /\ command_buffer \in {"q", "wq"}
                         /\ Len(tabs) = 1
            /\ (mode = "Command" /\ command_buffer \in {"q", "wq"}
                    /\ Len(tabs) >= 2) =>
                  LET r == handle_key_event(AtEvent, Code("Enter"), env)
                  IN /\ r.status = "running"
                     /\ Len(r.tabs) = Len(tabs) - 1
                     /\ \A i \in 1..Len(r.tabs) :
                           r.tabs[i].content =
                               tabs[IF i <= active_tab THEN i ELSE i + 1].content

\* C17: new_tab() on a sole tab with lines [""] and no path keeps the tabs
\* as they are, one tab with active index 0; in every other case it appends
\* one tab with lines [""], cursor (0,0), empty undo and redo stacks and no
\* path, makes it the active tab and leaves the existing tabs unchanged.
C17_NewTab ==
    status = "running" =>
        LET r == new_tab(Ed)
            n == Len(tabs)
        IN /\ r.status = "running"
           /\ IF n = 1 /\ tabs[1].content = <<"">> /\ tabs[1].current_file = <<>>
              THEN r.tabs = tabs /\ r.active_tab = 0
              ELSE /\ Len(r.tabs) = n + 1
                   /\ SubSeq(r.tabs, 1, n) = tabs
                   /\ r.active_tab = n
                   /\ r.tabs[n + 1].content = <<"">>
                   /\ r.tabs[n + 1].cursor_position = <<0, 0>>
                   /\ r.tabs[n + 1].undo_stack = <<>>
                   /\ r.tabs[n + 1].redo_stack = <<>>
                   /\ r.tabs[n + 1].current_file = <<>>

\* C17 happens: a scratch tab was appended to a tab holding a file and is
\* the active one
C17_Witness ==
    /\ status = "running"
    /\ last_op = "new_tab"
    /\ Len(tabs) = 2
    /\ active_tab = 1
    /\ tabs[1].current_file = <<"f">>
    /\ tabs[2].current_file = <<>>

\* C18: switch_to_tab(n) makes n the active index when n is less than the
\* number of tabs; otherwise it reports a message and leaves the tabs, the
\* active index and the mode unchanged.
C18_SwitchToTab ==
    status = "running" =>
        \A n \in 0..8 :
            LET r == switch_to_tab(Ed, n)
            IN /\ r.status = "running"
               /\ IF n < Len(tabs)
                  THEN r.active_tab = n
                  ELSE /\ r.message = "no_such_tab"
                       /\ r.tabs = tabs
                       /\ r.active_tab = active_tab
                       /\ r.mode = mode

\* C18 happens: a function key asked for a tab that does not exist while
\* two tabs were open
C18_Witness ==
    /\ status = "running"
    /\ last_op = "switch_to_tab"
    /\ message = "no_such_tab"
    /\ Len(tabs) = 2

\* next_tab() k times
RECURSIVE NextTabTimes(_, _)
NextTabTimes(e, k) == IF k = 0 THEN e ELSE NextTabTimes(next_tab(e), k - 1)

\* C19: with n tabs and active index a, next_tab() sets the index to
\* (a+1) mod n and previous_tab() to (a-1) mod n; each undoes the other, n
\* times next_tab() returns to a, and none of them changes a tab.
C19_NextPreviousTab ==
    status = "running" =>
        LET n == Len(tabs)
            a == active_tab
        IN /\ next_tab(Ed).active_tab = (a + 1) % n
           /\ previous_tab(Ed).active_tab = (a - 1) % n
           /\ previous_tab(next_tab(Ed)).active_tab = a
           /\ next_tab(previous_tab(Ed)).active_tab = a
           /\ NextTabTimes(Ed, n).active_tab = a
           /\ next_tab(Ed).tabs = tabs
           /\ previous_tab(Ed).tabs = tabs
           /\ NextTabTimes(Ed, n).tabs = tabs
           /\ next_tab(Ed).status = "running"
           /\ previous_tab(Ed).status = "running"

\* C19 happens: next_tab wrapped from the last of three tabs to the first
C19_Witness ==
    /\ status = "running"
    /\ last_op = "next_tab"
    /\ Len(tabs) = 3
    /\ active_tab = 0

\* the reference extraction of the range from start to end, start at or
\* before end in (line, column) order
ReferenceExtraction(content, start, end) ==
    LET first == content[start[2] + 1]
        last == content[end[2] + 1]
    IN IF start[2] = end[2]
       THEN Slice(first, Min(start[1], Len(first)), Min(end[1] + 1, Len(first)))
       ELSE JoinLines(
                [k \in 1..(end[2] - start[2] + 1) |->
                    IF k = 1
                    THEN Slice(first, Min(start[1], Len(first)), Len(first))
                    ELSE IF k = end[2] - start[2] + 1
                    THEN Slice(last, 0, Min(end[1], Len(last)))
                    ELSE content[start[2] + k]])

\* C20: the text the yank key of Visual mode writes to a clipboard that
\* accepts it is the reference extraction of the normalized range: on one
\* line the columns start.col through end.col inclusive; over several lines
\* the suffix of the start line, the interior lines in full and the prefix
\* of the end line up to end.col, joined by newline characters.
C20_YankIsReferenceExtraction ==
    (status = "running" /\ mode = "Visual"
        /\ LineColLe(selection_range(Ed)[1], selection_range(Ed)[2])) =>
        \A env \in YankEnvs :
            env.clip_ok =>
                handle_key_event(AtEvent, Ch("y"), env).clipboard =
                    <<ReferenceExtraction(Active(Ed).content,
                                          selection_range(Ed)[1],
                                          selection_range(Ed)[2])>>

\* the lines joined by newlines with the piece of length n at offset a cut out
CutOut(lines, a, n) ==
    LET text == JoinLines(lines)
    IN Slice(text, 0, a) \o Slice(text, a + n, Len(text))

\* the offset of the position pos in the lines joined by newlines
OffsetOf(lines, pos) ==
    LET before == SubSeq(lines, 1, pos[2])
    IN (IF pos[2] = 0 THEN 0 ELSE Len(JoinLines(before)) + 1) + pos[1]

\* C21: in Visual mode the delete key removes from the buffer exactly the
\* text the yank key would copy for the same anchor and cursor: the buffer
\* after it is the buffer before with that text cut out at the normalized
\* start, and the cursor is at the normalized start.
C21_DeleteMirrorsYank ==
    (status = "running" /\ mode = "Visual"
        /\ LineColLe(selection_range(Ed)[1], selection_range(Ed)[2])) =>
        LET t == Active(Ed)
            start == selection_range(Ed)[1]
            y == handle_key_event(AtEvent, Ch("y"), DefaultEnv)
            d == handle_key_event(AtEvent, Ch("d"), DefaultEnv)
        IN (y.status = "running" /\ y.clipboard # <<>>) =>
               /\ d.status = "running"
               /\ JoinLines(Active(d).content) =
                      CutOut(t.content, OffsetOf(t.content, start),
                             Len(y.clipboard[1]))
               /\ Active(d).cursor_position = start

\* C22: undo() with a non-empty undo stack removes the newest undo snapshot
\* and nothing else from that stack, puts the live state (lines, cursor,
\* both offsets) on top of the redo stack and makes the removed snapshot the
\* live state; undo() with an empty undo stack and redo() with an empty redo
\* stack leave the tab as it is.
C22_UndoStep ==
    status = "running" =>
        LET t == Active(Ed)
            u == Active(undo(Ed))
            r == Active(redo(Ed))
            Live(x) == <<x.content, x.cursor_position, x.scroll_offset,
                         x.horizontal_scroll>>
        IN /\ undo(Ed).status = "running"
           /\ redo(Ed).status = "running"
           /\ IF t.undo_stack # <<>>
              THEN /\ u.undo_stack = Tail(t.undo_stack)
                   /\ Len(u.redo_stack) = Len(t.redo_stack) + 1
                   /\ Tail(u.redo_stack) = t.redo_stack
                   /\ Live(Head(u.redo_stack)) = Live(t)
                   /\ Live(u) = Live(Head(t.undo_stack))
              ELSE u = t
           /\ t.redo_stack = <<>> => r = t

\* C22 happens: an undo was made with snapshots left below the one it took
\* and with redo snapshots already there
C22_Witness ==
    /\ status = "running"
    /\ last_op = "undo"
    /\ Len(Active(Ed).undo_stack) >= 2
    /\ Len(Active(Ed).redo_stack) >= 2

\* ---------------------------------------------------- scrolling specification
\* a file taller than the window or one with a line wider than the window;
\* the cursor is moved and the window is paged in Normal mode
RECURSIVE Repeat(_, _)
Repeat(s, n) == IF n = 0 THEN "" ELSE s \o Repeat(s, n - 1)

\* the lines of the files: ScrollLines empty lines; a line of WideLen
\* characters and an empty line
ScrollFiles == {[i \in 1..ScrollLines |-> ""], <<Repeat("a", WideLen), "">>}

\* main: Editor::with_file on one of the files (Tab::from_file)
InitScroll ==
    /\ InitEditor
    /\ tabs \in {<<[Tab_new EXCEPT !.content = lines, !.current_file = <<"f">>]>> :
                    lines \in ScrollFiles}
    /\ clipboard_kind = "Real"
    /\ clipboard = <<>>

\* run_app: a motion or paging key in Normal mode
ScrollKey ==
    /\ status = "running"
    /\ mode = "Normal"
    /\ \E e \in Outcomes(CursorKeys) : Becomes(e)

SpecScroll == InitScroll /\ [][ScrollKey]_vars

\* C23: in every state the window of editor_height lines that starts at the
\* active tab's vertical offset holds the cursor line.
C23_CursorLineVisible ==
    LET t == Active(Ed)
    IN status = "running" =>
           /\ t.scroll_offset <= t.cursor_position[2]
           /\ t.cursor_position[2] < t.scroll_offset + editor_height

\* C24: in every state, and after backspace, line deletion, a vertical move
\* or undo from it, the window of editor_width columns that starts at the
\* active tab's horizontal offset holds the cursor column; in particular the
\* offset does not exceed the column.
C24_CursorColumnVisible ==
    LET Visible(t) ==
            /\ t.horizontal_scroll <= t.cursor_position[1]
            /\ t.cursor_position[1] < t.horizontal_scroll + editor_width
    IN status = "running" =>
           /\ Visible(Active(Ed))
           /\ \A r \in {backspace(Ed), delete_line(Ed, TRUE), move_cursor_up(Ed),
                        move_cursor_down(Ed), undo(Ed)} :
                 r.status = "running" => Visible(Active(r))

\* C25: with H = editor_height and n lines, page_down sets the vertical
\* offset to min(old + H, max(0, n - H)) and the cursor line to
\* min(offset + H - 1, n - 1); page_up sets the offset to max(0, old - H) and
\* the cursor line to the new offset; neither changes the lines.
C25_Paging ==
    status = "running" =>
        LET t == Active(Ed)
            n == Len(t.content)
            H == editor_height
            old == t.scroll_offset
            d == Active(page_down(Ed))
            u == Active(page_up(Ed))
            Larger(a, b) == IF a >= b THEN a ELSE b
        IN /\ d.scroll_offset = Min(old + H, Larger(0, n - H))
           /\ d.cursor_position[2] = Min(d.scroll_offset + H - 1, n - 1)
           /\ u.scroll_offset = Larger(0, old - H)
           /\ u.cursor_position[2] = u.scroll_offset
           /\ d.content = t.content
           /\ u.content = t.content
           /\ page_down(Ed).status = "running"
           /\ page_up(Ed).status = "running"

\* C25 happens: PageDown on the tall file moved the window by a full
\* editor_height, short of the largest offset, with the cursor on the bottom
\* line of the window
C25_Witness ==
    /\ status = "running"
    /\ last_op = "move"
    /\ Len(Active(Ed).content) = ScrollLines
    /\ Active(Ed).scroll_offset = editor_height
    /\ Active(Ed).cursor_position[2] = 2 * editor_height - 1

\* C26: from a state with the cursor in bounds, moving the cursor up or down
\* leaves the column as it was when the new cursor line is long enough and
\* otherwise sets it to the length of that line.
C26_VerticalMoveClamps ==
    (status = "running" /\ CursorInBounds(Active(Ed))) =>
        \A r \in {move_cursor_up(Ed), move_cursor_down(Ed)} :
            LET t == Active(r)
                line == t.content[t.cursor_position[2] + 1]
            IN t.cursor_position[1] =
                   Min(Active(Ed).cursor_position[1], Len(line))

\* C27: moving right at the end of a line goes to column 0 of the next line
\* if there is one and otherwise changes nothing; moving left at column 0
\* goes to the end of the previous line if there is one and otherwise changes
\* nothing; when a move changed the cursor the opposite move brings it back;
\* the lines never change.
C27_HorizontalMoveWraps ==
    status = "running" =>
        LET t == Active(Ed)
            x == t.cursor_position[1]
            y == t.cursor_position[2]
            n == Len(t.content)
            r == move_cursor_right(Ed)
            l == move_cursor_left(Ed)
            At(e) == Active(e).cursor_position
        IN /\ r.status = "running" /\ l.status = "running"
           /\ Active(r).content = t.content /\ Active(l).content = t.content
           /\ x = Len(t.content[y + 1]) =>
                  At(r) = IF y < n - 1 THEN <<0, y + 1>> ELSE <<x, y>>
           /\ x = 0 =>
                  At(l) = IF y > 0 THEN <<Len(t.content[y]), y - 1>> ELSE <<0, 0>>
           /\ At(r) # <<x, y>> => At(move_cursor_left(r)) = <<x, y>>
           /\ At(l) # <<x, y>> => At(move_cursor_right(l)) = <<x, y>>

\* C28: delete_line() with the cursor on line y of n lines removes line y
\* and no other, hands its text to the clipboard, leaves the single empty
\* line when n was 1, sets the cursor column to 0 and keeps the cursor line
\* at y, or makes it y-1 when y was the last of n >= 2 lines.
C28_DeleteLine ==
    status = "running" =>
        \A clip_ok \in BOOLEAN :
            LET t == Active(Ed)
                n == Len(t.content)
                y == t.cursor_position[2]
                r == delete_line(AtEvent, clip_ok)
            IN /\ r.status = "running"
               /\ r.clipboard = <<t.content[y + 1]>>
               /\ Active(r).content =
                      IF n = 1 THEN <<"">> ELSE VecRemove(t.content, y)
               /\ Active(r).cursor_position =
                      <<0, IF n >= 2 /\ y = n - 1 THEN y - 1 ELSE y>>

\* C29: from a state with the cursor in bounds, backspace() at column x > 0
\* removes the character left of the cursor and moves the cursor one column
\* left; at column 0 of a line y > 0 it appends the line to the previous one,
\* removes it and puts the cursor at the previous line's former length; at
\* (0,0) it leaves the whole tab as it is, undo and redo stacks included.
C29_Backspace ==
    (status = "running" /\ CursorInBounds(Active(Ed))) =>
        LET t == Active(Ed)
            x == t.cursor_position[1]
            y == t.cursor_position[2]
            line == t.content[y + 1]
            r == backspace(Ed)
        IN /\ r.status = "running"
           /\ IF x > 0
              THEN /\ Active(r).content =
                          [t.content EXCEPT ![y + 1] =
                              Slice(line, 0, x - 1) \o Slice(line, x, Len(line))]
                   /\ Active(r).cursor_position = <<x - 1, y>>
              ELSE IF y > 0
              THEN /\ Active(r).content =
                          SubSeq(t.content, 1, y - 1)
                              \o <<t.content[y] \o line>>
                              \o SubSeq(t.content, y + 2, Len(t.content))
                   /\ Active(r).cursor_position = <<Len(t.content[y]), y - 1>>
              ELSE Active(r) = t

\* C30: from a state with the cursor and the visual anchor in bounds,
\* backspace, delete_char, delete_line, undo and, in Visual mode,
\* delete_selection run to their end and leave the cursor in bounds.
C30_ShrinkKeepsCursorInBounds ==
    LET t == Active(Ed)
        ops == {backspace(Ed), delete_char(Ed), delete_line(Ed, TRUE), undo(Ed)}
                   \cup (IF mode = "Visual" THEN {delete_selection(Ed)} ELSE {})
    IN (/\ status = "running"
        /\ CursorInBounds(t)
        /\ visual_start[2] < Len(t.content)
        /\ visual_start[1] <= Len(t.content[visual_start[2] + 1])) =>
           \A r \in ops : r.status = "running" /\ CursorInBounds(Active(r))

\* the search specification: a two-line file is searched, lines are deleted,
\* tabs are opened, and the search results are walked
\* main(): Editor::with_file(path) on a file with the searched text
InitSearch ==
    /\ InitEditor
    /\ tabs \in {<<Tab_from_file("f", t)>> : t \in {"a\na\n", "\naa\n"}}
    /\ clipboard_kind = "Real"
    /\ clipboard = <<>>

\* run_app: a key event in Normal mode
SearchNormalKey ==
    /\ status = "running"
    /\ mode = "Normal"
    /\ \E e \in Outcomes({Ch("/"), Ch("n"), Ch("N"), Ch("d"), Ctrl("t")}) :
          WithinBounds(e) /\ Becomes(e)

\* run_app: a key event in Search mode; the query is kept short
SearchModeKey ==
    /\ status = "running"
    /\ mode = "Search"
    /\ \E e \in Outcomes({Ch("a"), Code("Enter"), Code("Esc"), Code("Backspace")}) :
          Len(e.search_query) <= MaxLineLen /\ Becomes(e)

NextSearch ==
    \/ SearchNormalKey
    \/ SearchModeKey

SpecSearch == InitSearch /\ [][NextSearch]_vars

\* C31: insert_char called while the cursor's line index is out of range is
\* a no-op: the editor keeps running and the active tab's lines and cursor
\* are unchanged.
C31_InsertCharOutOfRangeSilent ==
    (/\ status = "running"
     /\ Active(Ed).cursor_position[2] >= Len(Active(Ed).content)) =>
        \A c \in InsertChars :
           LET r == insert_char(AtEvent, c) IN
           /\ r.status = "running"
           /\ Active(r).content = Active(Ed).content
           /\ Active(r).cursor_position = Active(Ed).cursor_position

\* C39: after a jump to a search result (perform_search, next_search_result,
\* previous_search_result) the active tab's cursor is in bounds, also when
\* lines were deleted or the active tab changed since the search.
C39_SearchJumpInBounds ==
    (/\ status = "running"
     /\ last_op \in {"perform_search", "next_search_result",
                     "previous_search_result"}) =>
        CursorInBounds(Active(Ed))

\* the modes specification: the editor is started on a file or on a
\* directory, with a system clipboard or the stand-in, and every mode is
\* entered and left
\* main(): Editor::with_file(path), or Editor::new() in FileSelect mode with
\* a file selector when the argument is a directory
InitModes ==
    /\ active_tab = 0
    /\ \/ /\ mode = "Normal" /\ file_selector = FALSE
          /\ tabs = <<Tab_from_file("f", "a\n")>>
       \/ /\ mode = "FileSelect" /\ file_selector = TRUE
          /\ tabs = <<Tab_new>>
    /\ pending_key = <<>>
    /\ cursor_position = <<0, 0>>
    /\ visual_start = <<0, 0>>
    /\ command_buffer = ""
    /\ search_query = ""
    /\ search_results = <<>>
    /\ current_search_index = 0
    /\ show_sidebar = FALSE
    /\ mouse_selection_start = <<>>
    /\ mouse_selection_end = <<>>
    /\ status = "running"
    /\ message = "none"
    /\ last_op = "init"
    /\ clipboard_kind \in {"Real", "Dummy"}
    /\ clipboard = <<>>

\* run_app: a key event in whatever mode the editor is in; the file selector
\* answers with a directory, a file or an error, and the directory listing of
\* the sidebar succeeds or fails
ModeKey ==
    LET keys == IF mode = "Normal"
                THEN {Ch(c) : c \in {"i", "v", ":", "/"}}
                         \cup {Ctrl("e"), Code("Esc"), Fn(10)}
                ELSE {Code("Esc"), Code("Enter"), Fn(10)}
        envs(key) ==
            IF key = Code("Enter")
            THEN {[DefaultEnv EXCEPT !.sel = x, !.kind = "ok", !.text = "a\n"] :
                     x \in {"dir", "file", "err"}}
            ELSE IF key = Ctrl("e")
            THEN {[DefaultEnv EXCEPT !.dir_ok = b] : b \in BOOLEAN}
            ELSE {DefaultEnv}
    IN /\ status = "running"
       /\ \E key \in keys : \E env \in envs(key) :
             LET e == handle_key_event(AtEvent, key, env) IN
             /\ WithinBounds(e)
             /\ Becomes(e)

SpecModes == InitModes /\ [][ModeKey]_vars

\* C32: in every mode other than Normal, Escape sets the mode to Normal and
\* leaves every tab (lines, cursor, undo and redo stacks) and the active
\* index unchanged.
C32_EscapeLeavesMode ==
    (status = "running" /\ mode # "Normal") =>
        LET r == handle_key_event(AtEvent, Code("Esc"), DefaultEnv) IN
        /\ r.status = "running"
        /\ r.mode = "Normal"
        /\ r.tabs = tabs
        /\ r.active_tab = active_tab

\* Escape has just closed the sidebar that was opened over a second tab
C32_Witness ==
    /\ status = "running"
    /\ last_op = "toggle_sidebar"
    /\ mode = "Normal"
    /\ ~show_sidebar
    /\ Len(tabs) > 1

\* the key has no meaning in the mode m: in Normal mode it has no binding, is
\* no prefix of a binding and is none of the built-in keys; in the other
\* modes the handler has no arm for it; the keys handle_key_event itself
\* takes (a function key of an open tab, Ctrl+q) are never meaningless
NoMeaning(m, key) ==
    LET key_str == key_event_to_string(key) IN
    /\ ~(key.kind = "F" /\ key.n >= 1 /\ key.n <= 9 /\ key.n - 1 < Len(tabs))
    /\ ~(key.kind = "Char" /\ key.c = "q" /\ key.mods = {"CONTROL"})
    /\ CASE m = "Normal" ->
              /\ binding(normal_mode, key_str) = <<>>
              /\ ~\E p \in normal_mode : starts_with(p[1], key_str)
              /\ key.kind \notin {"Left", "Down", "Up", "Right", "Home", "End",
                                  "PageUp", "PageDown", "Tab", "BackTab"}
         [] m = "Insert" ->
              key.kind \notin {"Esc", "Enter", "Backspace", "Delete", "Left",
                               "Down", "Up", "Right", "Char"}
         [] m = "Command" -> key.kind \notin {"Enter", "Char", "Backspace", "Esc"}
         [] m = "Visual" ->
              /\ key.kind \notin {"Esc", "Left", "Down", "Up", "Right"}
              /\ ~(key.kind = "Char" /\ key.c \in {"y", "d"})
         [] m = "Search" -> key.kind \notin {"Esc", "Enter", "Char", "Backspace"}
         [] OTHER ->
              /\ key.kind \notin {"Up", "Down", "Enter", "Esc"}
              /\ ~(m = "SidebarActive" /\ key_str = "Ctrl+e")

\* C33: with no pending key, a key without a meaning in the current mode is
\* inert: the tabs, the active index, the mode and the pending key are
\* unchanged and the editor keeps running.
C33_UnboundKeysInert ==
    (status = "running" /\ pending_key = <<>>) =>
        \A key \in {Ch("z"), Ctrl("z"), Fn(5), Fn(10), Code("Home"),
                    Code("Insert"), Code("Delete"), Code("BackTab")} :
           NoMeaning(mode, key) =>
              LET r == handle_key_event(AtEvent, key, DefaultEnv) IN
              /\ r.status = "running"
              /\ r.tabs = tabs
              /\ r.active_tab = active_tab
              /\ r.mode = mode
              /\ r.pending_key = pending_key

\* an unbound key was pressed in Normal mode with a second tab open
C33_Witness ==
    /\ status = "running"
    /\ last_op = "unbound_key"
    /\ mode = "Normal"
    /\ pending_key = <<>>
    /\ Len(tabs) > 1

\* C34: one key event changes the state of at most one tab: an editing,
\* cursor, undo, redo or search operation leaves every tab but the active one
\* as it was, and switching tabs changes no tab.
C34_OneTabPerEvent ==
    status = "running" =>
        \A key \in EditNormalKeys \cup EditInsertKeys \cup TabNormalKeys
                      \cup {Ch("/"), Ch("n"), Ch("N"), Ch("y")} :
           \A env \in EnvsFor(key) :
              LET r == handle_key_event(AtEvent, key, env) IN
              r.status = "running" =>
                 /\ \/ r.last_op \in {"new_tab", "close_tab"}
                    \/ /\ Len(r.tabs) = Len(tabs)
                       /\ \A i \in 1..Len(tabs) :
                             i # active_tab + 1 => r.tabs[i] = tabs[i]
                 /\ r.last_op \in {"switch_to_tab", "next_tab", "previous_tab"}
                       => r.tabs = tabs

\* a character was typed into the second of two tabs that differ
C34_Witness ==
    /\ status = "running"
    /\ last_op = "insert_char"
    /\ Len(tabs) >= 2
    /\ active_tab = 1
    /\ tabs[1] # tabs[2]
    /\ tabs[1].undo_stack # <<>>

\* C35: the active index always names an existing tab, in every state reached
\* by new tabs, file opens and :q, and after any tab key pressed there
\* (new_tab, close_tab, switch_to_tab, next_tab, previous_tab); an abort on
\* an index that names no tab counts as a failure.
C35_ActiveTabExists ==
    status \in {"running", "panicked"} =>
        /\ Len(tabs) >= 1
        /\ active_tab < Len(tabs)
        /\ status = "running" =>
              \A key \in TabNormalKeys \cup {Code("BackTab")} :
                 LET r == handle_key_event(AtEvent, key, DefaultEnv) IN
                 r.status \in {"running", "panicked"} =>
                    Len(r.tabs) >= 1 /\ r.active_tab < Len(r.tabs)

\* :q has closed the last of three tabs and the index moved back onto the
\* new last tab
C35_Witness ==
    /\ status = "running"
    /\ last_op = "close_tab"
    /\ Len(tabs) = 2
    /\ active_tab = 1

\* C36: entering Visual mode sets the anchor to the active tab's cursor, and
\* all through Visual mode the anchor is a position of the active buffer.
C36_AnchorIsCursor ==
    (status = "running" /\ mode = "Visual") =>
        LET t == Active(Ed) IN
        /\ last_op = "enter_visual_mode" => visual_start = t.cursor_position
        /\ visual_start[2] < Len(t.content)
        /\ visual_start[1] <= Len(t.content[visual_start[2] + 1])

\* C37: an operation that does not change the lines (yank_line,
\* copy_selection, the mouse copy, a cursor motion, a mode change, a tab
\* switch) leaves the active tab's undo and redo stacks unchanged.
C37_ReadOnlyOpsKeepHistory ==
    status = "running" =>
        \A r \in {yank_line(AtEvent, TRUE), copy_selection(AtEvent, TRUE, TRUE),
                  copy_selection_to_clipboard(AtEvent, TRUE),
                  move_cursor_left(AtEvent), move_cursor_right(AtEvent),
                  move_cursor_up(AtEvent), move_cursor_down(AtEvent),
                  handle_key_event(AtEvent, Code("Esc"), DefaultEnv),
                  execute_action(AtEvent, "enter_visual_mode", DefaultEnv),
                  execute_action(AtEvent, "enter_insert_mode", DefaultEnv),
                  switch_to_tab(AtEvent, 0), next_tab(AtEvent)} :
           r.status = "running" =>
              /\ Active(r).undo_stack = Active(Ed).undo_stack
              /\ Active(r).redo_stack = Active(Ed).redo_stack

\* C38: a pending key exists only in Normal mode, in every reachable state
\* and after any key that enters another mode.
C38_PendingOnlyInNormal ==
    /\ pending_key # <<>> => mode = "Normal"
    /\ status = "running" =>
          \A key \in {Ch(c) : c \in {"i", "a", "o", "O", "v", ":", "/", "y"}}
                        \cup {Ctrl("e"), Fn(1), Code("Insert")} :
             LET r == handle_key_event(AtEvent, key, DefaultEnv) IN
             r.pending_key # <<>> => r.mode = "Normal"

\* the first key of a chord has just been buffered
C38_Witness ==
    /\ status = "running"
    /\ last_op = "pending"
    /\ pending_key = <<"d">>
    /\ mode = "Normal"

\* C40: with the stand-in clipboard, whose get_contents always answers the
\* empty string, paste_after and paste_clipboard leave the active buffer's
\* lines and cursor unchanged.
C40_DummyPasteIsNoOp ==
    (status = "running" /\ clipboard_kind = "Dummy") =>
        \A held \in ClipTexts :
           \A r \in {paste_after(AtEvent, TRUE, held),
                     paste_clipboard(AtEvent, TRUE, TRUE, held)} :
              /\ r.status = "running"
              /\ Active(r).content = Active(Ed).content
              /\ Active(r).cursor_position = Active(Ed).cursor_position

====
